---- MODULE Spec2Model ----
(***************************************************************************)
(* Verification model of the SECOP acquisition pipeline                    *)
(* (ErickFMR777/A_del_Mercado): currency normalisation, DataFrame          *)
(* cleaning, historical merge and the search / detail orchestrators.       *)
(*                                                                         *)
(* Text values are sequences of one-character strings, so that the         *)
(* character-level code of cleaning.py can be followed step by step.       *)
(***************************************************************************)
EXTENDS Integers, Sequences, FiniteSets, TLC

VARIABLES
    valor,        \* cleaning.py: argument of _convertir_moneda_colombiana
    res_moneda,   \* its return value (NoLlamado before the call)
    pc_moneda,    \* "ini" before the call, "fin" after it
    df_paso,      \* cleaning.py: the local df of limpiar_dataframe
    df_norm,      \* df as returned by normalizar_strings (line 385)
    df_sinvacias, \* df as returned by eliminar_filas_vacias (line 386)
    pc_limpiar,   \* the statement of limpiar_dataframe reached
    sufijo,       \* "csv" or "parquet": what ruta.suffix selects
    archivo,      \* the historical store file at ruta_historica, on disk
    archivo_previo, \* its content when actualizar_base_historica was called
    nuevos,       \* detail_scraper.py: argument of actualizar_base_historica
    historica,    \* its local historica (the store as loaded)
    combinado,    \* its local combinado
    pendientes,   \* rows of combinado not yet written to the file
    pc_hist,      \* the statement of actualizar_base_historica reached
    modo,         \* the entry point of the run: "busqueda", "detalle", "scraping"
    pc,           \* main.py: the statement of the orchestrator reached
    driver_propio,   \* scraper.py: ejecutar_scraping's driver_propio
    cerrar_al_final, \* its argument cerrar_al_final
    max_pages,    \* params.max_pages
    paginas_html, \* main.py: the pages ejecutar_scraping returned
    df_crudo,     \* main.py: the parsed browser rows (None before)
    df_limpio,    \* main.py: the cleaned set (None before)
    df_api,       \* main.py: what consultar_desde_params returned
    df_detalles,  \* main.py: what extraer_detalles_masivo returned
    exc_selenium, \* whether the local name exc_selenium is bound
    llamadas_api, \* calls of consultar_desde_params made by the run
    salida,       \* the exported CSV at ruta_salida
    codigo,       \* how the run ended: "ninguno" while it runs, "0", "1",
                  \* "retorno" (a direct call returned), "excepcion"
    ret,          \* the return value pending while a finally block runs
    reportes,     \* the messages logged or printed by the orchestrator
    args_historica,  \* whether --historica was given
    driver,       \* the handle held by the run: "ninguno", "abierto",
                  \* "cerrado", "cierre_fallido" (quit() raised)
    huerfana,     \* a session started inside a crear_driver that raised
    creadas,      \* sessions crear_driver has returned to the run
    cerrar_llamadas, \* calls of cerrar_driver made by the run
    pc_scr,       \* scraper.py: the statement of ejecutar_scraping reached
    pagina_actual,   \* recopilar_html_paginas: pagina_actual
    intento,      \* recopilar_html_paginas: intento
    todas_html,   \* the pages collected so far
    exc_pendiente, \* an exception is on its way out of the current block
    captcha_vencido, \* where a manejar_recaptcha call raised ("no": nowhere)
    esperas,      \* the time.sleep(espera) calls of the current page transition
    posicion,     \* the results page the browser shows
    capturadas_en,   \* for each collected document, the page it was read on
    hay_siguiente,   \* the last result of _hay_pagina_siguiente
    par_html,     \* parser.py: argument paginas_html of parsear_todas_paginas
    par_idx,      \* the page the loop of parsear_todas_paginas is at
    dataframes,   \* its local dataframes
    errores,      \* its local errores
    df_consolidado,  \* its return value (NoLlamado before the return)
    pc_par,       \* the statement of parsear_todas_paginas reached
    args_where,   \* api_scraper.py: the arguments of _construir_where
    where,        \* its return value (NoLlamado before the return)
    pc_where,     \* "ini" before the call, "fin" after it
    cap_timeout,  \* scraper.py: argument timeout of manejar_recaptcha
    reloj,        \* time.monotonic()
    inicio,       \* its local inicio
    deteccion,    \* the last result of _detectar_recaptcha
    sondeos,      \* the times the loop body has run
    dormido,      \* the seconds slept in time.sleep
    pc_cap,      \* the statement of manejar_recaptcha reached
    ver_indicador,  \* scraper.py: the text of span#totalRegistros, or its absence
    ver_tabla,    \* table.tbl_resulados is in the page
    ver_tabla_generica,  \* some table is in the page
    ver_frases,   \* the phrases of mensajes_vacios the lowered page text contains
    ver_resultado,  \* what verificar_resultados returned or raised
    pc_ver,      \* "ini" before the call, "fin" after it
    con_args,     \* consultar_contratos: the filters it is called with
    max_registros,  \* its max_registros argument
    con_where,    \* where, the predicate of the page queries
    where_conteo,  \* the predicate contar_registros builds for the count query
    con_total,    \* total, the answer of the count query
    registros_a_obtener,  \* min(total, max_registros)
    offset,       \* the offset of the next page query
    all_records,  \* the number of records in all_records
    peticiones,   \* the page queries issued, each with its limit and offset
    longitudes,   \* the number of rows of each page received
    con_ret,      \* the number of rows of the DataFrame returned
    pc_con,      \* position in consultar_contratos
    urls,         \* extraer_detalles_masivo: the detail URLs it is given
    max_errores,  \* its max_errores argument
    mas_idx,          \* the number of URLs visited, the loop index
    exitos,       \* for each visit, whether extraer_detalle_proceso returned a detail
    resultados,   \* the records appended, each named by its url_detalle
    errores_consecutivos,  \* the consecutive failures counted
    mas_ret,      \* the DataFrame returned, given by its rows
    pc_mas,      \* position in extraer_detalles_masivo
    form_params,  \* rellenar_formulario: which of departamento, municipio and estado the parameters give
    cargadas,     \* for the municipality and status dropdowns, whether the portal has added options to the placeholder
    form_sondeos,  \* the polls _esperar_opciones_estado has made
    observado,    \* what _esperar_opciones_estado returned
    selecciones,  \* the selections attempted on the two dropdowns
    pc_form,     \* position in the dropdown part of rellenar_formulario
    documento,    \* _encontrar_tabla: the <table> elements of the document, in document order
    tabla_elegida,  \* the position of the table returned, 0 for None
    pc_tab,      \* position in _encontrar_tabla
    tabla_html,   \* parsear_pagina: the <tr> elements of the table found, each with the kind of its cells and the href of its links
    url_df,       \* the rows of the DataFrame returned, each with the <tr> it comes from and its url_detalle
    pc_url       \* position in parsear_pagina

varsMoneda == <<valor, res_moneda, pc_moneda>>
varsLimpiar == <<df_paso, df_norm, df_sinvacias, pc_limpiar>>
varsHist ==
    <<sufijo, archivo, archivo_previo, nuevos, historica, combinado, pendientes, pc_hist>>
varsLlamada == <<modo, pc, driver_propio, cerrar_al_final, max_pages>>
varsDatos ==
    <<paginas_html, df_crudo, df_limpio, df_api, df_detalles, exc_selenium,
      llamadas_api, salida, codigo, ret, reportes, args_historica>>
varsSesion == <<driver, huerfana, creadas, cerrar_llamadas>>
varsRec == <<captcha_vencido, esperas, posicion, capturadas_en, hay_siguiente>>
varsScr == <<pc_scr, pagina_actual, intento, todas_html, exc_pendiente, varsRec>>
varsOrq == <<varsLlamada, varsDatos, varsSesion, varsScr>>
varsPar == <<par_html, par_idx, dataframes, errores, df_consolidado, pc_par>>
varsWhere == <<args_where, where, pc_where>>
varsCap == <<cap_timeout, reloj, inicio, deteccion, sondeos, dormido, pc_cap>>
varsVer == <<ver_indicador, ver_tabla, ver_tabla_generica, ver_frases, ver_resultado, pc_ver>>
varsCon == <<con_args, max_registros, con_where, where_conteo, con_total, registros_a_obtener, offset, all_records, peticiones, longitudes, con_ret, pc_con>>
varsMas == <<urls, max_errores, mas_idx, exitos, resultados, errores_consecutivos, mas_ret, pc_mas>>
varsForm == <<form_params, cargadas, form_sondeos, observado, selecciones, pc_form>>
varsTab == <<documento, tabla_elegida, pc_tab>>
varsUrl == <<tabla_html, url_df, pc_url>>
varsUnidades == <<varsPar, varsWhere, varsCap, varsVer, varsCon, varsMas, varsForm, varsTab, varsUrl>>
varsBase == <<varsMoneda, varsLimpiar, varsHist, varsOrq>>
varsResto == <<varsMoneda, varsLimpiar, varsUnidades>>
fueraPar == <<varsBase, varsWhere, varsCap, varsVer, varsCon, varsMas, varsForm, varsTab, varsUrl>>
fueraWhere == <<varsBase, varsPar, varsCap, varsVer, varsCon, varsMas, varsForm, varsTab, varsUrl>>
fueraCap == <<varsBase, varsPar, varsWhere, varsVer, varsCon, varsMas, varsForm, varsTab, varsUrl>>
fueraVer == <<varsBase, varsPar, varsWhere, varsCap, varsCon, varsMas, varsForm, varsTab, varsUrl>>
fueraCon == <<varsBase, varsPar, varsWhere, varsCap, varsVer, varsMas, varsForm, varsTab, varsUrl>>
fueraMas == <<varsBase, varsPar, varsWhere, varsCap, varsVer, varsCon, varsForm, varsTab, varsUrl>>
fueraForm == <<varsBase, varsPar, varsWhere, varsCap, varsVer, varsCon, varsMas, varsTab, varsUrl>>
fueraTab == <<varsBase, varsPar, varsWhere, varsCap, varsVer, varsCon, varsMas, varsForm, varsUrl>>
fueraUrl == <<varsBase, varsPar, varsWhere, varsCap, varsVer, varsCon, varsMas, varsForm, varsTab>>
vars == <<varsBase, varsUnidades>>

\* Every value a variable or a cell may hold is a record tagged by "clase",
\* so that any two values can be compared.
NULL == [clase |-> "null"]            \* Python None / pandas NaN
NoLlamado == [clase |-> "nollamado"]  \* the function has not run yet

(***************************************************************************)
(* Bounds of the model.                                                    *)
(***************************************************************************)
MaxLen == 4       \* longest free-form currency string enumerated
MaxGrupos == 2    \* most dot-separated three-digit groups after the first
MaxFilas == 2     \* most rows of a DataFrame given to limpiar_dataframe
MaxHist == 2      \* most records of the historical store on disk
MaxNuevos == 2    \* most records of a batch given to the historical merge

(***************************************************************************)
(* Generic sequence helpers.                                               *)
(***************************************************************************)
Digitos == {"0", "1", "2", "3", "4", "5", "6", "7", "8", "9"}

RECURSIVE Concat(_)
Concat(ss) == IF ss = <<>> THEN <<>> ELSE Head(ss) \o Concat(Tail(ss))

Contiene(s, c) == \E i \in 1..Len(s) : s[i] = c

SinCaracter(s, c) == SelectSeq(s, LAMBDA x : x /= c)

\* whitespace characters of the model (Python's \s)
Blancos == {" ", "\n", "\t"}

\* str.strip(): drop leading and trailing whitespace
RECURSIVE LStrip(_)
LStrip(s) == IF s /= <<>> /\ Head(s) \in Blancos THEN LStrip(Tail(s)) ELSE s

RECURSIVE RStrip(_)
RStrip(s) ==
    IF s /= <<>> /\ s[Len(s)] \in Blancos
    THEN RStrip(SubSeq(s, 1, Len(s) - 1))
    ELSE s

Strip(s) == RStrip(LStrip(s))

\* str.split(c): the pieces between occurrences of c (always at least one)
RECURSIVE Split(_, _)
Split(s, c) ==
    IF ~Contiene(s, c) THEN <<s>>
    ELSE LET i == CHOOSE k \in 1..Len(s) :
                     s[k] = c /\ \A j \in 1..(k - 1) : s[j] /= c
         IN  <<SubSeq(s, 1, i - 1)>> \o Split(SubSeq(s, i + 1, Len(s)), c)

\* re.sub(r"^[^\d\-]*", "", s): drop the leading run of characters that are
\* neither a digit nor a minus sign
RECURSIVE QuitarPrefijo(_)
QuitarPrefijo(s) ==
    IF s /= <<>> /\ Head(s) \notin (Digitos \cup {"-"})
    THEN QuitarPrefijo(Tail(s))
    ELSE s

(***************************************************************************)
(* Python float(str) on the characters of the model: an optional sign,     *)
(* then "inf", "infinity" or "nan", or a decimal literal with at least one *)
(* digit.  Anything else is ValueError, rendered as NULL by the callers'   *)
(* except clauses.  A number is kept exactly, as its digits.               *)
(***************************************************************************)
SoloDigitos(s) == \A i \in 1..Len(s) : s[i] \in Digitos

RECURSIVE SinCerosIzq(_)
SinCerosIzq(s) ==
    IF Len(s) > 1 /\ Head(s) = "0" THEN SinCerosIzq(Tail(s))
    ELSE IF s = <<>> THEN <<"0">> ELSE s

RECURSIVE SinCerosDer(_)
SinCerosDer(s) ==
    IF s /= <<>> /\ s[Len(s)] = "0" THEN SinCerosDer(SubSeq(s, 1, Len(s) - 1))
    ELSE s

Numero(neg, ent, frac) ==
    LET e == SinCerosIzq(ent)
        f == SinCerosDer(frac)
    IN  [clase |-> "num", neg |-> neg /\ ~(e = <<"0">> /\ f = <<>>),
         ent |-> e, frac |-> f]

PalabrasFloat == {<<"i", "n", "f">>, <<"n", "a", "n">>,
                  <<"i", "n", "f", "i", "n", "i", "t", "y">>}

ValueError == [clase |-> "ValueError"]

FloatSinSigno(neg, t) ==
    IF t = <<"n", "a", "n">> THEN [clase |-> "nan"]
    ELSE IF t \in PalabrasFloat THEN [clase |-> "inf", neg |-> neg]
    ELSE IF t = <<>> THEN ValueError
    ELSE LET p == Split(t, ".")
         IN  IF Len(p) = 1
             THEN IF SoloDigitos(t) THEN Numero(neg, t, <<>>) ELSE ValueError
             ELSE IF Len(p) = 2 /\ SoloDigitos(p[1]) /\ SoloDigitos(p[2])
                       /\ Len(p[1]) + Len(p[2]) > 0
                  THEN Numero(neg, p[1], p[2])
                  ELSE ValueError

Float(s) ==
    LET t == Strip(s)
    IN  IF t /= <<>> /\ Head(t) \in {"-", "+"}
        THEN FloatSinSigno(Head(t) = "-", Tail(t))
        ELSE FloatSinSigno(FALSE, t)

\* try: return float(x) / except ValueError: return None
FloatONull(s) == IF Float(s) = ValueError THEN NULL ELSE Float(s)

(***************************************************************************)
(* cleaning.py, _convertir_moneda_colombiana                               *)
(***************************************************************************)
ConvertirConComa(s) ==
    LET partes == Split(s, ",")
        entero == SinCaracter(partes[1], ".")
        decimal == IF Len(partes) > 1 THEN partes[2] ELSE <<"0">>
    IN  FloatONull(entero \o <<".">> \o decimal)

ConvertirConPunto(s) ==
    LET partes == Split(s, ".")
        ultima == partes[Len(partes)]
    IN  IF Len(ultima) <= 2 /\ Len(partes) > 1
        THEN FloatONull(Concat(SubSeq(partes, 1, Len(partes) - 1))
                        \o <<".">> \o ultima)
        ELSE FloatONull(SinCaracter(s, "."))

_convertir_moneda_colombiana(v) ==
    IF v = <<>> \/ Strip(v) = <<>> THEN NULL
    ELSE LET s == SinCaracter(QuitarPrefijo(Strip(v)), " ")
         IN  IF s = <<>> THEN NULL
             ELSE IF Contiene(s, ",") THEN ConvertirConComa(s)
             ELSE IF Contiene(s, ".") THEN ConvertirConPunto(s)
             ELSE FloatONull(s)

(***************************************************************************)
(* DataFrames.  A frame has ordered columns, each with a name and a flag   *)
(* telling whether its dtype is ``object`` (text), and ordered rows; a row *)
(* holds one cell per column.  "origen" records which source produced the  *)
(* row; no code reads it.                                                  *)
(***************************************************************************)
Texto(s) == [clase |-> "str", s |-> s]

\* pd.isna: None and NaN are both missing values
EsNulo(v) == v.clase \in {"null", "nan"}

\* str(v) as used by astype(str) and by str(v) in eliminar_filas_vacias
Str(v) == IF v.clase = "str" THEN v.s ELSE <<"n", "a", "n">>

Frame(cols, filas) == [cols |-> cols, filas |-> filas]

Nombres(df) == [i \in 1..Len(df.cols) |-> df.cols[i].nombre]

ColsObjeto(df) == {i \in 1..Len(df.cols) : df.cols[i].objeto}

MapCeldas(df, F(_, _)) ==
    [df EXCEPT !.filas =
        [k \in 1..Len(df.filas) |->
            [df.filas[k] EXCEPT !.celdas =
                [i \in 1..Len(df.cols) |-> F(i, df.filas[k].celdas[i])]]]]

(***************************************************************************)
(* cleaning.py, _normalizar_string and normalizar_strings                  *)
(***************************************************************************)
\* re.sub(r"[\n\r\t]+", " ", s): each run of line breaks / tabs becomes a space
RECURSIVE ReemplazarSaltos(_)
ReemplazarSaltos(s) ==
    IF s = <<>> THEN <<>>
    ELSE IF Head(s) \in {"\n", "\t"}
         THEN IF Len(s) > 1 /\ s[2] \in {"\n", "\t"}
              THEN ReemplazarSaltos(Tail(s))
              ELSE <<" ">> \o ReemplazarSaltos(Tail(s))
         ELSE <<Head(s)>> \o ReemplazarSaltos(Tail(s))

\* re.sub(r"\s{2,}", " ", s): each run of two or more blanks becomes a space
RECURSIVE ColapsarEspacios(_)
ColapsarEspacios(s) ==
    IF s = <<>> THEN <<>>
    ELSE IF Head(s) \in Blancos /\ Len(s) > 1 /\ s[2] \in Blancos
         THEN IF Len(s) > 2 /\ s[3] \in Blancos
              THEN ColapsarEspacios(Tail(s))
              ELSE <<" ">> \o ColapsarEspacios(SubSeq(s, 3, Len(s)))
         ELSE <<Head(s)>> \o ColapsarEspacios(Tail(s))

_normalizar_string(v) ==
    IF EsNulo(v) THEN Texto(<<>>)
    ELSE Texto(Strip(ColapsarEspacios(ReemplazarSaltos(Str(v)))))

normalizar_strings(df) ==
    MapCeldas(df, LAMBDA i, v :
        IF df.cols[i].objeto THEN _normalizar_string(v) ELSE v)

(***************************************************************************)
(* cleaning.py, eliminar_filas_vacias                                      *)
(***************************************************************************)
\* df.dropna(how="all"): drop the rows whose cells are all missing
DropNaAll(filas) ==
    SelectSeq(filas, LAMBDA r : ~(\A i \in 1..Len(r.celdas) : EsNulo(r.celdas[i])))

\* rows whose object-dtype cells are all blank strings
TodosStringsVacios(df, r) ==
    \A i \in ColsObjeto(df) : Strip(Str(r.celdas[i])) = <<>>

eliminar_filas_vacias(df) ==
    LET paso1 == DropNaAll(df.filas)
    IN  IF ColsObjeto(df) /= {}
        THEN [df EXCEPT !.filas =
                 SelectSeq(paso1, LAMBDA r : ~TodosStringsVacios(df, r))]
        ELSE [df EXCEPT !.filas = paso1]

(***************************************************************************)
(* config.py column lists and cleaning.py, renombrar_columnas (every       *)
(* caller leaves mapeo at None)                                            *)
(***************************************************************************)
COLUMNAS_RESULTADO ==
    <<"numero_proceso", "entidad", "objeto_contrato", "modalidad",
      "fecha_apertura", "fecha_cierre", "cuantia", "estado", "departamento",
      "municipio">>

COLUMNAS_MONETARIAS ==
    {"cuantia", "valor_estimado", "valor_adjudicado", "valor_contrato"}

COLUMNAS_FECHA ==
    {"fecha_apertura", "fecha_cierre", "fecha_adjudicacion", "fecha_contrato"}

\* str(c).startswith("col_"), on the column names of the model
EsGenerica(n) == n \in {"col_0", "col_1", "col_2"}

renombrar_columnas(df) ==
    IF Nombres(df) /= COLUMNAS_RESULTADO
       /\ \A i \in 1..Len(df.cols) : EsGenerica(df.cols[i].nombre)
    THEN [df EXCEPT !.cols =
             [i \in 1..Len(df.cols) |->
                 [df.cols[i] EXCEPT !.nombre = COLUMNAS_RESULTADO[i]]]]
    ELSE df

(***************************************************************************)
(* cleaning.py, convertir_columnas_monetarias                              *)
(***************************************************************************)
ColsCon(df, nombres) == {i \in 1..Len(df.cols) : df.cols[i].nombre \in nombres}

\* dtype of a column after Series.map: float64 as soon as one number is in
\* it, object while every result is None
TiparCols(df, cs) ==
    [df EXCEPT !.cols =
        [i \in 1..Len(df.cols) |->
            IF i \in cs
            THEN [df.cols[i] EXCEPT !.objeto =
                     \A k \in 1..Len(df.filas) : df.filas[k].celdas[i] = NULL]
            ELSE df.cols[i]]]

\* mutant: the conversion drops the rows whose amount could not be parsed
convertir_columnas_monetarias_descarta(df) ==
    LET cs == ColsCon(df, COLUMNAS_MONETARIAS)
        t == MapCeldas(df, LAMBDA i, v :
                 IF i \in cs THEN _convertir_moneda_colombiana(Str(v)) ELSE v)
    IN  [t EXCEPT !.filas =
            SelectSeq(t.filas, LAMBDA r : \A i \in cs : r.celdas[i] /= NULL)]

convertir_columnas_monetarias(df) ==
    LET cs == ColsCon(df, COLUMNAS_MONETARIAS)
    IN  TiparCols(MapCeldas(df, LAMBDA i, v :
            IF i \in cs THEN _convertir_moneda_colombiana(Str(v)) ELSE v), cs)

(***************************************************************************)
(* cleaning.py, _parsear_fecha and convertir_columnas_fecha                *)
(***************************************************************************)
ValorDigito(c) ==
    CASE c = "0" -> 0 [] c = "1" -> 1 [] c = "2" -> 2 [] c = "3" -> 3
      [] c = "4" -> 4 [] c = "5" -> 5 [] c = "6" -> 6 [] c = "7" -> 7
      [] c = "8" -> 8 [] c = "9" -> 9

RECURSIVE ANatural(_)
ANatural(s) ==
    IF s = <<>> THEN 0
    ELSE 10 * ANatural(SubSeq(s, 1, Len(s) - 1)) + ValorDigito(s[Len(s)])

DiasDelMes(a, m) ==
    IF m = 2
    THEN IF (a % 4 = 0 /\ a % 100 /= 0) \/ a % 400 = 0 THEN 29 ELSE 28
    ELSE IF m \in {4, 6, 9, 11} THEN 30 ELSE 31

Timestamp(a, m, d) == [clase |-> "ts", a |-> a, m |-> m, d |-> d]

\* one explicit date format: three numeric fields around sep, the year
\* first or last; ValueError when the string does not match
ParsearFormato(s, sep, anioPrimero) ==
    LET p == Split(s, sep)
    IN  IF Len(p) /= 3 \/ \E i \in 1..3 : p[i] = <<>> \/ ~SoloDigitos(p[i])
        THEN ValueError
        ELSE LET pa == IF anioPrimero THEN p[1] ELSE p[3]
                 pd == IF anioPrimero THEN p[3] ELSE p[1]
             IN  IF Len(pa) /= 4 \/ Len(p[2]) > 2 \/ Len(pd) > 2
                 THEN ValueError
                 ELSE LET a == ANatural(pa)
                          m == ANatural(p[2])
                          d == ANatural(pd)
                      IN  IF m \in 1..12 /\ d >= 1 /\ d <= DiasDelMes(a, m)
                          THEN Timestamp(a, m, d)
                          ELSE ValueError

\* pd.to_datetime(s, dayfirst=True), the last resort: it rejects every
\* string of the model that no explicit format accepts
InferenciaFecha(s) == NULL

\* _FORMATOS_FECHA in order; the formats with a time of day need ":" and
\* cannot match a string of the model
_parsear_fecha(v) ==
    IF v = <<>> \/ Strip(v) = <<>> THEN NULL
    ELSE LET s == Strip(v)
         IN  IF ParsearFormato(s, "/", FALSE) /= ValueError
             THEN ParsearFormato(s, "/", FALSE)
             ELSE IF ParsearFormato(s, "-", FALSE) /= ValueError
             THEN ParsearFormato(s, "-", FALSE)
             ELSE IF ParsearFormato(s, "-", TRUE) /= ValueError
             THEN ParsearFormato(s, "-", TRUE)
             ELSE InferenciaFecha(s)

convertir_columnas_fecha(df) ==
    LET cs == ColsCon(df, COLUMNAS_FECHA)
    IN  TiparCols(MapCeldas(df, LAMBDA i, v :
            IF i \in cs THEN _parsear_fecha(Str(v)) ELSE v), cs)

(***************************************************************************)
(* cleaning.py, limpiar_dataframe                                          *)
(***************************************************************************)
limpiar_dataframe(df) ==
    convertir_columnas_fecha(
        convertir_columnas_monetarias(
            renombrar_columnas(
                eliminar_filas_vacias(
                    normalizar_strings(df)))))

(***************************************************************************)
(* Inputs of the currency specification.                                   *)
(***************************************************************************)
Alfabeto == {"0", "1", ".", ",", "$", " ", "-", "i", "n", "f"}

CadenasHasta(n) == UNION {[1..k -> Alfabeto] : k \in 0..n}

\* one to three digits, then groups of exactly three digits
GrupoInicial == {<<"1">>, <<"2", "0">>, <<"1", "0", "5">>, <<"0">>}
GrupoTres == {<<"2", "3", "4">>, <<"0", "0", "0">>, <<"5", "0", "7">>}

RECURSIVE Agrupadas(_)
Agrupadas(n) ==
    IF n = 0 THEN GrupoInicial
    ELSE {a \o <<".">> \o g : a \in Agrupadas(n - 1), g \in GrupoTres}

\* "$d.ddd...ddd" with at least one dot
CadenasMiles == {<<"$">> \o a : a \in UNION {Agrupadas(n) : n \in 1..MaxGrupos}}

EjemploMiles == <<"$", "1", ".", "2", "3", "4", ".", "5", "6", "7", ".", "8", "9", "0">>
EjemploDecimal == <<"$", "1", ".", "2", "3", "4", ".", "5", "6", "7", ",", "8", "9">>

EjemploDosComas == <<"1", ",", "2", "3", "4", ",", "5", "6">>

EntradasMoneda ==
    CadenasHasta(MaxLen) \cup CadenasMiles
        \cup {EjemploMiles, EjemploDecimal, EjemploDosComas}

MonedaInactiva ==
    /\ valor = <<>>
    /\ res_moneda = NoLlamado
    /\ pc_moneda = "off"

ConvertirMoneda ==
    /\ pc_moneda = "ini"
    /\ res_moneda' = _convertir_moneda_colombiana(valor)
    /\ pc_moneda' = "fin"
    /\ UNCHANGED valor
    /\ UNCHANGED <<varsLimpiar, varsHist, varsOrq, varsUnidades>>

(***************************************************************************)
(* Inputs of the cleaning specification: raw frames of a few schemas.      *)
(***************************************************************************)
Col(nombre, objeto, valores) ==
    [nombre |-> nombre, objeto |-> objeto, valores |-> valores]

TextosMuestra ==
    {NULL, Texto(<<" ">>), Texto(<<" ", "a", "\n", "\t", "b", " ">>)}
MonedasMuestra ==
    {Texto(<<>>), Texto(<<"$", "1", ".", "2", "3", "4">>), Texto(<<"a", "b", "c">>)}
MonedasMuestra2 ==
    {Texto(<<"1", ",", "5">>), Texto(<<" ">>), Texto(<<"-", "i", "n", "f">>)}
FechasMuestra ==
    {Texto(<<>>),
     Texto(<<"3", "1", "/", "0", "1", "/", "2", "0", "2", "5">>),
     Texto(<<"3", "1", "/", "1", "3", "/", "2", "0", "2", "5">>)}
FechasMuestra2 ==
    {Texto(<<"2", "0", "2", "4", "-", "0", "2", "-", "2", "9">>),
     Texto(<<"a", "b", "c">>),
     Texto(<<"0", "1", "-", "0", "2", "-", "2", "0", "2", "5">>)}
NumerosMuestra == {NULL, Numero(FALSE, <<"5">>, <<>>)}

\* headers of the portal table, as parsear_pagina names the columns
EsquemaPortal ==
    <<Col("numero_proceso", TRUE, TextosMuestra),
      Col("cuantia", TRUE, MonedasMuestra),
      Col("fecha_apertura", TRUE, FechasMuestra)>>
\* positional names, renamed by renombrar_columnas
EsquemaGenerico ==
    <<Col("col_0", TRUE, TextosMuestra), Col("col_1", TRUE, TextosMuestra)>>
\* a text column next to a numeric (float64) column
EsquemaMixto ==
    <<Col("entidad", TRUE, TextosMuestra), Col("extra", FALSE, NumerosMuestra)>>
\* no object column at all
EsquemaNumerico == <<Col("extra", FALSE, NumerosMuestra)>>
\* two of the COLUMNAS_API of the fallback source
EsquemaApi ==
    <<Col("nombre_entidad", TRUE, TextosMuestra),
      Col("valor_del_contrato", TRUE, MonedasMuestra)>>
EsquemaTipado ==
    <<Col("valor_contrato", TRUE, MonedasMuestra2),
      Col("fecha_cierre", TRUE, FechasMuestra2)>>

Esquemas ==
    {EsquemaPortal, EsquemaGenerico, EsquemaMixto, EsquemaNumerico, EsquemaApi,
     EsquemaTipado}

ValoresDe(e) == UNION {e[i].valores : i \in 1..Len(e)}

FilasDe(e, origen) ==
    {[origen |-> origen, celdas |-> c] :
        c \in {x \in [1..Len(e) -> ValoresDe(e)] :
                  \A i \in 1..Len(e) : x[i] \in e[i].valores}}

SecuenciasHasta(S, n) == UNION {[1..k -> S] : k \in 0..n}

ColsDe(e) ==
    [i \in 1..Len(e) |-> [nombre |-> e[i].nombre, objeto |-> e[i].objeto]]

FramesDe(e, origen, n) ==
    {Frame(ColsDe(e), f) : f \in SecuenciasHasta(FilasDe(e, origen), n)}

OrigenDe(e) == IF e = EsquemaApi THEN "api" ELSE "sel"

\* df is a frame of schema e with at most MaxFilas rows
EsFrameCrudo(d) ==
    \E e \in Esquemas : \E k \in 0..MaxFilas :
        \E f \in [1..k -> FilasDe(e, OrigenDe(e))] : d = Frame(ColsDe(e), f)

LimpiarInactivo ==
    /\ df_paso = NoLlamado
    /\ df_norm = NoLlamado
    /\ df_sinvacias = NoLlamado
    /\ pc_limpiar = "off"

(***************************************************************************)
(* limpiar_dataframe, statement by statement (cleaning.py 385-389)         *)
(***************************************************************************)
Normalizar ==
    /\ pc_limpiar = "ini"
    /\ df_paso' = normalizar_strings(df_paso)
    /\ df_norm' = df_paso'
    /\ pc_limpiar' = "normalizado"
    /\ UNCHANGED df_sinvacias
    /\ UNCHANGED <<varsMoneda, varsHist, varsOrq, varsUnidades>>

EliminarVacias ==
    /\ pc_limpiar = "normalizado"
    /\ df_paso' = eliminar_filas_vacias(df_paso)
    /\ df_sinvacias' = df_paso'
    /\ pc_limpiar' = "sin_vacias"
    /\ UNCHANGED df_norm
    /\ UNCHANGED <<varsMoneda, varsHist, varsOrq, varsUnidades>>

Renombrar ==
    /\ pc_limpiar = "sin_vacias"
    /\ df_paso' = renombrar_columnas(df_paso)
    /\ pc_limpiar' = "renombrado"
    /\ UNCHANGED <<df_norm, df_sinvacias>>
    /\ UNCHANGED <<varsMoneda, varsHist, varsOrq, varsUnidades>>

ConvertirMonetarias ==
    /\ pc_limpiar = "renombrado"
    /\ df_paso' = convertir_columnas_monetarias(df_paso)
    /\ pc_limpiar' = "monetarias"
    /\ UNCHANGED <<df_norm, df_sinvacias>>
    /\ UNCHANGED <<varsMoneda, varsHist, varsOrq, varsUnidades>>

ConvertirFechas ==
    /\ pc_limpiar = "monetarias"
    /\ df_paso' = convertir_columnas_fecha(df_paso)
    /\ pc_limpiar' = "fin"
    /\ UNCHANGED <<df_norm, df_sinvacias>>
    /\ UNCHANGED <<varsMoneda, varsHist, varsOrq, varsUnidades>>

(***************************************************************************)
(* The store file.  A CSV file holds text fields, a parquet file holds the *)
(* typed values; "completo" is false while a write has not finished.       *)
(***************************************************************************)
NoExiste == [clase |-> "noexiste"]

Archivo(formato, cols, filas, cabecera, completo) ==
    [clase |-> "archivo", formato |-> formato, cols |-> cols, filas |-> filas,
     cabecera |-> cabecera, completo |-> completo]

DigitoDe(n) ==
    CASE n = 0 -> "0" [] n = 1 -> "1" [] n = 2 -> "2" [] n = 3 -> "3"
      [] n = 4 -> "4" [] n = 5 -> "5" [] n = 6 -> "6" [] n = 7 -> "7"
      [] n = 8 -> "8" [] n = 9 -> "9"

RECURSIVE DigitosDe(_, _)
DigitosDe(n, ancho) ==
    IF ancho = 0 THEN <<>>
    ELSE DigitosDe(n \div 10, ancho - 1) \o <<DigitoDe(n % 10)>>

\* the text to_csv writes for a cell: nothing for a missing value
EscribirCsv(v) ==
    CASE v.clase = "str" -> v.s
      [] v.clase \in {"null", "nan"} -> <<>>
      [] v.clase = "num" ->
            (IF v.neg THEN <<"-">> ELSE <<>>) \o v.ent \o <<".">>
                \o (IF v.frac = <<>> THEN <<"0">> ELSE v.frac)
      [] v.clase = "inf" -> (IF v.neg THEN <<"-">> ELSE <<>>) \o <<"i", "n", "f">>
      [] v.clase = "ts" ->
            DigitosDe(v.a, 4) \o <<"-">> \o DigitosDe(v.m, 2) \o <<"-">>
                \o DigitosDe(v.d, 2)

\* the strings read_csv takes for a missing value, dtype=str or not
ValoresNA ==
    {<<>>, <<"N", "A">>, <<"n", "a", "n">>, <<"N", "a", "N">>,
     <<"N", "U", "L", "L">>, <<"n", "u", "l", "l">>, <<"N", "o", "n", "e">>,
     <<"N", "/", "A">>, <<"n", "/", "a">>}

\* the cell read_csv(dtype=str) returns for a field
LeerCsv(t) == IF t \in ValoresNA THEN NULL ELSE Texto(t)

\* a field of a CSV file
Campo(t) == [clase |-> "campo", t |-> t]

Guardar(formato, v) == IF formato = "csv" THEN Campo(EscribirCsv(v)) ELSE v
Cargar(formato, x) == IF formato = "csv" THEN LeerCsv(x.t) ELSE x

\* the file row to_csv / to_parquet writes for a row of a frame
FilaArchivo(formato, r) ==
    [i \in 1..Len(r.celdas) |-> Guardar(formato, r.celdas[i])]

\* pd.read_csv(ruta, dtype=str) / pd.read_parquet(ruta) of a readable file
LeerArchivo(a) ==
    Frame([i \in 1..Len(a.cols) |->
              [a.cols[i] EXCEPT !.objeto =
                  IF a.formato = "csv" THEN TRUE ELSE a.cols[i].objeto]],
          [k \in 1..Len(a.filas) |->
              [origen |-> "hist",
               celdas |-> [i \in 1..Len(a.cols) |->
                              Cargar(a.formato, a.filas[k][i])]]])

\* an empty CSV file has no header to parse and a parquet file without its
\* footer is not a parquet file: both reads raise
Legible(a) == IF a.formato = "csv" THEN a.cabecera ELSE a.completo

(***************************************************************************)
(* detail_scraper.py, actualizar_base_historica: concat and dedup          *)
(***************************************************************************)
IndiceDe(cols, nombre) ==
    IF \E i \in 1..Len(cols) : cols[i].nombre = nombre
    THEN CHOOSE i \in 1..Len(cols) : cols[i].nombre = nombre
    ELSE 0

CeldaDe(d, r, nombre) ==
    IF IndiceDe(d.cols, nombre) = 0 THEN NULL
    ELSE r.celdas[IndiceDe(d.cols, nombre)]

\* pd.concat([a, b], ignore_index=True): the columns of a, then those only b
\* has; a cell of a column the row's frame lacks is NaN
PdConcat(a, b) ==
    LET extra == SelectSeq(b.cols, LAMBDA c : IndiceDe(a.cols, c.nombre) = 0)
        cols == a.cols \o extra
        alinear(d, r) ==
            [r EXCEPT !.celdas =
                [i \in 1..Len(cols) |-> CeldaDe(d, r, cols[i].nombre)]]
    IN  Frame(cols,
              [k \in 1..Len(a.filas) |-> alinear(a, a.filas[k])]
                  \o [k \in 1..Len(b.filas) |-> alinear(b, b.filas[k])])

\* rows kept by drop_duplicates(subset=[clave], keep="last"): those with no
\* later row of the same key (missing keys count as one key)
MismaClave(x, y) == (EsNulo(x) /\ EsNulo(y)) \/ (~EsNulo(x) /\ ~EsNulo(y) /\ x = y)

\* mutant: keep="first"
DropDuplicatesFirst(d, clave) ==
    LET n == Len(d.filas)
        conserva(k) ==
            \A j \in 1..(k - 1) :
                ~MismaClave(CeldaDe(d, d.filas[j], clave),
                            CeldaDe(d, d.filas[k], clave))
        idx == {k \in 1..n : conserva(k)}
        f[k \in 0..n] ==
            IF k = 0 THEN <<>>
            ELSE IF k \in idx THEN Append(f[k - 1], d.filas[k]) ELSE f[k - 1]
    IN  [d EXCEPT !.filas = f[n]]

DropDuplicatesLast(d, clave) ==
    LET n == Len(d.filas)
        conserva(k) ==
            \A j \in (k + 1)..n :
                ~MismaClave(CeldaDe(d, d.filas[j], clave),
                            CeldaDe(d, d.filas[k], clave))
        idx == {k \in 1..n : conserva(k)}
        f[k \in 0..n] ==
            IF k = 0 THEN <<>>
            ELSE IF k \in idx THEN Append(f[k - 1], d.filas[k]) ELSE f[k - 1]
    IN  [d EXCEPT !.filas = f[n]]

columna_clave == "numero_proceso"

\* lines 425-435
CombinarYDeduplicar(h, n) ==
    LET c == PdConcat(h, n)
    IN  IF IndiceDe(c.cols, columna_clave) /= 0
        THEN DropDuplicatesLast(c, columna_clave)
        ELSE c

DataFrameVacio == Frame(<<>>, <<>>)

(***************************************************************************)
(* actualizar_base_historica, statement by statement.  The write opens the *)
(* target itself for writing, which empties it, and then emits the header  *)
(* and the rows; the call can be cut short at any statement (an exception, *)
(* a full disk, the process being killed).                                 *)
(***************************************************************************)
HistCargar ==
    /\ pc_hist = "ini"
    /\ IF archivo = NoExiste
       THEN /\ historica' = DataFrameVacio
            /\ pc_hist' = "cargado"
       ELSE IF Legible(archivo)
            THEN /\ historica' = LeerArchivo(archivo)
                 /\ pc_hist' = "cargado"
            ELSE /\ historica' = historica
                 /\ pc_hist' = "excepcion"
    /\ UNCHANGED <<sufijo, archivo, archivo_previo, nuevos, combinado, pendientes>>
    /\ UNCHANGED <<varsMoneda, varsLimpiar, varsOrq, varsUnidades>>

HistCombinar ==
    /\ pc_hist = "cargado"
    /\ combinado' = CombinarYDeduplicar(historica, nuevos)
    /\ pc_hist' = "combinado"
    /\ UNCHANGED <<sufijo, archivo, archivo_previo, nuevos, historica, pendientes>>
    /\ UNCHANGED <<varsMoneda, varsLimpiar, varsOrq, varsUnidades>>

\* to_csv / to_parquet open ruta for writing: the old content is gone
HistAbrir ==
    /\ pc_hist = "combinado"
    /\ archivo' = Archivo(sufijo, combinado.cols, <<>>, FALSE, FALSE)
    /\ pendientes' = combinado.filas
    /\ pc_hist' = "abierto"
    /\ UNCHANGED <<sufijo, archivo_previo, nuevos, historica, combinado>>
    /\ UNCHANGED <<varsMoneda, varsLimpiar, varsOrq, varsUnidades>>

HistEscribirCabecera ==
    /\ pc_hist = "abierto"
    /\ archivo' = [archivo EXCEPT !.cabecera = TRUE]
    /\ pc_hist' = "escribiendo"
    /\ UNCHANGED <<sufijo, archivo_previo, nuevos, historica, combinado, pendientes>>
    /\ UNCHANGED <<varsMoneda, varsLimpiar, varsOrq, varsUnidades>>

HistEscribirFila ==
    /\ pc_hist = "escribiendo"
    /\ pendientes /= <<>>
    /\ archivo' = [archivo EXCEPT !.filas =
                      Append(@, FilaArchivo(archivo.formato, Head(pendientes)))]
    /\ pendientes' = Tail(pendientes)
    /\ UNCHANGED <<sufijo, archivo_previo, nuevos, historica, combinado, pc_hist>>
    /\ UNCHANGED <<varsMoneda, varsLimpiar, varsOrq, varsUnidades>>

HistCerrar ==
    /\ pc_hist = "escribiendo"
    /\ pendientes = <<>>
    /\ archivo' = [archivo EXCEPT !.completo = TRUE]
    /\ pc_hist' = "fin"
    /\ UNCHANGED <<sufijo, archivo_previo, nuevos, historica, combinado, pendientes>>
    /\ UNCHANGED <<varsMoneda, varsLimpiar, varsOrq, varsUnidades>>

HistInterrumpir ==
    /\ pc_hist \in {"ini", "cargado", "combinado", "abierto", "escribiendo"}
    /\ pc_hist' = "excepcion"
    /\ UNCHANGED <<sufijo, archivo, archivo_previo, nuevos, historica, combinado,
                   pendientes>>
    /\ UNCHANGED <<varsMoneda, varsLimpiar, varsOrq, varsUnidades>>

HistInactivo ==
    /\ sufijo = "csv"
    /\ archivo = NoExiste
    /\ archivo_previo = NoExiste
    /\ nuevos = NoLlamado
    /\ historica = NoLlamado
    /\ combinado = NoLlamado
    /\ pendientes = <<>>
    /\ pc_hist = "off"

(***************************************************************************)
(* Inputs of the historical-merge specification.                           *)
(***************************************************************************)
ClaveA == <<"A">>
ClaveB == <<"B">>

EsquemaHistConClave ==
    <<Col("numero_proceso", TRUE, {Texto(ClaveA), Texto(ClaveB), NULL}),
      Col("entidad", TRUE, {Texto(<<"x">>)})>>
EsquemaHistSinClave == <<Col("nombre_entidad", TRUE, {Texto(<<"x">>)})>>
EsquemaNuevosConClave ==
    <<Col("numero_proceso", TRUE, {Texto(ClaveA), Texto(ClaveB), Texto(<<>>)}),
      Col("entidad", TRUE, {Texto(<<"y">>), Texto(<<"z">>)})>>
EsquemaNuevosSinClave ==
    <<Col("nombre_entidad", TRUE, {Texto(<<"y">>), Texto(<<"z">>)})>>

\* a complete store file, as an earlier merge left it
ArchivoDe(formato, d) ==
    Archivo(formato, d.cols,
            [k \in 1..Len(d.filas) |-> FilaArchivo(formato, d.filas[k])],
            TRUE, TRUE)

ArchivosIniciales(fmt) ==
    {NoExiste} \cup
    {ArchivoDe(fmt, d) :
        d \in FramesDe(EsquemaHistConClave, "hist", MaxHist)
                \cup FramesDe(EsquemaHistSinClave, "hist", MaxHist)}

LotesNuevos ==
    FramesDe(EsquemaNuevosConClave, "sel", MaxNuevos)
        \cup FramesDe(EsquemaNuevosSinClave, "api", MaxNuevos)

(***************************************************************************)
(* parser.py: a results page as the parser sees it.  encabezados is what   *)
(* _extraer_encabezados returns for the page's table, filas the text of    *)
(* the <td> cells of each <tr>, before trimming.                           *)
(***************************************************************************)
Pagina(tabla, encabezados, filas) ==
    [tabla |-> tabla, encabezados |-> encabezados, filas |-> filas]

SecopParsingError == [clase |-> "error", tipo |-> "SecopParsingError"]
SecopEmptyTableError == [clase |-> "error", tipo |-> "SecopEmptyTableError"]
EsError(x) == "clase" \in DOMAIN x /\ x.clase = "error"

\* lines 151-162: rows without cells and rows whose trimmed cells are all
\* empty are skipped
_extraer_filas(p) ==
    LET recortadas ==
            [k \in 1..Len(p.filas) |->
                [i \in 1..Len(p.filas[k]) |-> Strip(p.filas[k][i])]]
    IN  SelectSeq(recortadas,
                  LAMBDA f : ~(\A i \in 1..Len(f) : f[i] = <<>>))

NombresGenericos(n) ==
    [i \in 1..n |-> IF i = 1 THEN "col_0" ELSE IF i = 2 THEN "col_1" ELSE "col_2"]

\* a row padded with "" or cut to num_cols cells
IgualarFila(f, n) == [i \in 1..n |-> IF i <= Len(f) THEN f[i] ELSE <<>>]

\* the pages of the model carry no detail links, so url_detalle is None
parsear_pagina(p) ==
    IF ~p.tabla THEN SecopParsingError
    ELSE LET filas == _extraer_filas(p)
         IN  IF filas = <<>> THEN SecopParsingError
             ELSE LET num_cols == Len(filas[1])
                      columnas ==
                          IF p.encabezados /= <<>> /\ Len(p.encabezados) = num_cols
                          THEN p.encabezados
                          ELSE IF num_cols <= Len(COLUMNAS_RESULTADO)
                               THEN SubSeq(COLUMNAS_RESULTADO, 1, num_cols)
                               ELSE NombresGenericos(num_cols)
                  IN  Frame([i \in 1..(num_cols + 1) |->
                                [nombre |-> IF i <= num_cols THEN columnas[i]
                                            ELSE "url_detalle",
                                 objeto |-> TRUE]],
                            [k \in 1..Len(filas) |->
                                [origen |-> "sel",
                                 celdas |->
                                    [i \in 1..(num_cols + 1) |->
                                        IF i <= num_cols
                                        THEN Texto(IgualarFila(filas[k], num_cols)[i])
                                        ELSE NULL]]])

\* mutant: the consolidated frame is returned as concatenated
DropDuplicatesNinguno(d) == d

\* DataFrame.drop_duplicates(): the first of each group of equal rows stays
DropDuplicatesExactos(d) ==
    LET n == Len(d.filas)
        idx == {k \in 1..n :
                   \A j \in 1..(k - 1) : d.filas[j].celdas /= d.filas[k].celdas}
        f[k \in 0..n] ==
            IF k = 0 THEN <<>>
            ELSE IF k \in idx THEN Append(f[k - 1], d.filas[k]) ELSE f[k - 1]
    IN  [d EXCEPT !.filas = f[n]]

RECURSIVE ConcatFrames(_)
ConcatFrames(ds) ==
    IF Len(ds) = 1 THEN ds[1]
    ELSE PdConcat(ConcatFrames(SubSeq(ds, 1, Len(ds) - 1)), ds[Len(ds)])

parsear_todas_paginas(pags) ==
    LET dfs ==
            SelectSeq([k \in 1..Len(pags) |-> parsear_pagina(pags[k])],
                      LAMBDA d : ~EsError(d))
    IN  IF pags = <<>> \/ dfs = <<>> THEN SecopEmptyTableError
        ELSE DropDuplicatesExactos(ConcatFrames(dfs))

(***************************************************************************)
(* Inputs of the orchestrator specification: what the portal, the API and  *)
(* the detail pages can answer.                                            *)
(***************************************************************************)
MaxPaginas == 2   \* largest max_pages of a search
MaxApi == 2       \* most records the API returns

MAX_RETRIES == 3  \* config.py

FilaA == <<ClaveA, <<"x">>>>
FilaB == <<ClaveB, <<"1">>>>
FilaBlanca == <<<<" ">>, <<>>>>

PaginasPosibles ==
    {Pagina(FALSE, <<>>, <<>>),
     Pagina(TRUE, <<>>, <<FilaBlanca>>),
     Pagina(TRUE, <<>>, <<FilaA>>),
     Pagina(TRUE, <<"numero_proceso", "cuantia">>, <<FilaB, FilaBlanca>>)}

EsquemaApiBusqueda ==
    <<Col("nombre_entidad", TRUE, {Texto(<<"e">>), Texto(<<" ">>)}),
      Col("valor_del_contrato", TRUE, {Texto(<<"1">>)})>>

RespuestasApi == FramesDe(EsquemaApiBusqueda, "api", MaxApi)

EsquemaDetalle ==
    <<Col("numero_proceso", TRUE, {Texto(ClaveA)}),
      Col("entidad", TRUE, {Texto(<<"x">>)})>>

ResultadosDetalle == FramesDe(EsquemaDetalle, "det", 1)

ArchivosOrq ==
    {NoExiste} \cup
    {ArchivoDe("csv", d) : d \in FramesDe(EsquemaDetalle, "hist", 1)}

(***************************************************************************)
(* scraper.py: the browser session.  crear_driver starts Chrome (line 116) *)
(* and then sends one CDP command (119-122); either can raise, the second  *)
(* with the session already started and no handle returned.  cerrar_driver *)
(* calls quit() and swallows a WebDriverException.                         *)
(***************************************************************************)
ResultadosCrearDriver == {"retorna", "sin_sesion", "sesion_sin_handle"}

CrearDriver(r) ==
    /\ driver' = IF r = "retorna" THEN "abierto" ELSE driver
    /\ creadas' = IF r = "retorna" THEN creadas + 1 ELSE creadas
    /\ huerfana' = (huerfana \/ r = "sesion_sin_handle")

CerrarDriver ==
    /\ cerrar_llamadas' = cerrar_llamadas + 1
    /\ driver' \in {"cerrado", "cierre_fallido"}

(***************************************************************************)
(* scraper.py, ejecutar_scraping, statement by statement.  Each step works *)
(* on the live portal and either completes or raises; a raise goes to the  *)
(* finally block with the exception pending.                               *)
(***************************************************************************)
\* lines 787-789, reached only when no driver was passed in; crear_driver
\* is called before the try, so its exception skips the finally
ScrCrearDriver ==
    /\ pc_scr = "crear"
    /\ \E r \in ResultadosCrearDriver :
          /\ CrearDriver(r)
          /\ pc_scr' = IF r = "retorna" THEN "rellenar" ELSE "excepcion"
          /\ exc_pendiente' = (r /= "retorna")
    /\ UNCHANGED <<cerrar_llamadas, pagina_actual, intento, todas_html, varsRec>>
    /\ UNCHANGED <<varsLlamada, varsDatos, varsHist, varsResto>>

\* line 797: rellenar_formulario
ScrRellenar ==
    /\ pc_scr = "rellenar"
    /\ \/ pc_scr' = "enviar" /\ exc_pendiente' = FALSE /\ UNCHANGED captcha_vencido
       \/ pc_scr' = "finally" /\ exc_pendiente' = TRUE /\ UNCHANGED captcha_vencido
       \* line 426: manejar_recaptcha raises SecopRecaptchaError
       \/ /\ pc_scr' = "finally"
          /\ exc_pendiente' = TRUE
          /\ captcha_vencido' = "formulario"
    /\ UNCHANGED <<pagina_actual, intento, todas_html>>
    /\ UNCHANGED <<esperas, posicion, capturadas_en, hay_siguiente>>
    /\ UNCHANGED <<varsLlamada, varsDatos, varsSesion, varsHist, varsResto>>

\* line 800: enviar_formulario
ScrEnviar ==
    /\ pc_scr = "enviar"
    /\ \/ pc_scr' = "iframe" /\ exc_pendiente' = FALSE /\ UNCHANGED captcha_vencido
       \/ pc_scr' = "finally" /\ exc_pendiente' = TRUE /\ UNCHANGED captcha_vencido
       \* line 506: manejar_recaptcha raises SecopRecaptchaError
       \/ /\ pc_scr' = "finally"
          /\ exc_pendiente' = TRUE
          /\ captcha_vencido' = "envio"
    /\ UNCHANGED <<pagina_actual, intento, todas_html>>
    /\ UNCHANGED <<esperas, posicion, capturadas_en, hay_siguiente>>
    /\ UNCHANGED <<varsLlamada, varsDatos, varsSesion, varsHist, varsResto>>

\* line 803: cambiar_a_iframe
ScrIframe ==
    /\ pc_scr = "iframe"
    /\ \/ pc_scr' = "verificar" /\ exc_pendiente' = FALSE
       \/ pc_scr' = "finally" /\ exc_pendiente' = TRUE
    /\ UNCHANGED <<pagina_actual, intento, todas_html, varsRec>>
    /\ UNCHANGED <<varsLlamada, varsDatos, varsSesion, varsHist, varsResto>>

\* lines 806-807: verificar_resultados
ScrVerificar ==
    /\ pc_scr = "verificar"
    /\ \/ pc_scr' = "recopilar" /\ exc_pendiente' = FALSE
       \/ pc_scr' = "finally" /\ exc_pendiente' = TRUE
    /\ UNCHANGED <<pagina_actual, intento, todas_html, varsRec>>
    /\ UNCHANGED <<varsLlamada, varsDatos, varsSesion, varsHist, varsResto>>

\* mutant: the loop runs while pagina_actual <= max_pages + 1
ScrCapturarUnaMas ==
    /\ pc_scr = "recopilar"
    /\ IF pagina_actual > max_pages + 1
       THEN /\ pc_scr' = "urls"
            /\ UNCHANGED <<todas_html, intento, exc_pendiente, esperas,
                           capturadas_en, hay_siguiente>>
       ELSE \/ \E p \in PaginasPosibles, hay \in BOOLEAN :
                  /\ todas_html' = Append(todas_html, p)
                  /\ capturadas_en' = Append(capturadas_en, posicion)
                  /\ pc_scr' = IF hay THEN "navegar" ELSE "urls"
                  /\ intento' = 1
                  /\ esperas' = <<>>
                  /\ hay_siguiente' = hay
                  /\ exc_pendiente' = FALSE
            \/ /\ pc_scr' = "finally"
               /\ exc_pendiente' = TRUE
               /\ UNCHANGED <<todas_html, intento, esperas, capturadas_en,
                              hay_siguiente>>
    /\ UNCHANGED <<pagina_actual, captcha_vencido, posicion>>
    /\ UNCHANGED <<varsLlamada, varsDatos, varsSesion, varsHist, varsResto>>

\* recopilar_html_paginas, lines 676-686: the loop condition, then the page
\* is captured and the "next" link is looked for; page_source and
\* _hay_pagina_siguiente can raise
ScrCapturar ==
    /\ pc_scr = "recopilar"
    /\ IF pagina_actual > max_pages
       THEN /\ pc_scr' = "urls"
            /\ UNCHANGED <<todas_html, intento, exc_pendiente, esperas,
                           capturadas_en, hay_siguiente>>
       ELSE \/ \E p \in PaginasPosibles, hay \in BOOLEAN :
                  /\ todas_html' = Append(todas_html, p)
                  /\ capturadas_en' = Append(capturadas_en, posicion)
                  /\ pc_scr' = IF hay THEN "navegar" ELSE "urls"
                  /\ intento' = 1
                  /\ esperas' = <<>>
                  /\ hay_siguiente' = hay
                  /\ exc_pendiente' = FALSE
            \/ /\ pc_scr' = "finally"
               /\ exc_pendiente' = TRUE
               /\ UNCHANGED <<todas_html, intento, esperas, capturadas_en,
                              hay_siguiente>>
    /\ UNCHANGED <<pagina_actual, captcha_vencido, posicion>>
    /\ UNCHANGED <<varsLlamada, varsDatos, varsSesion, varsHist, varsResto>>

\* config.py line 154
RETRY_BACKOFF == 2

RECURSIVE Potencia(_, _)
Potencia(base, exponente) ==
    IF exponente = 0 THEN 1 ELSE base * Potencia(base, exponente - 1)

\* mutant: a failed attempt is always followed by another one
ScrNavegarSinTope ==
    /\ pc_scr = "navegar"
    /\ \E exito \in BOOLEAN :
          IF exito
          THEN /\ pagina_actual' = pagina_actual + 1
               /\ posicion' = posicion + 1
               /\ pc_scr' = "captcha"
               /\ UNCHANGED <<intento, esperas>>
          ELSE /\ UNCHANGED <<pagina_actual, posicion>>
               /\ esperas' = Append(esperas, Potencia(RETRY_BACKOFF, intento))
               /\ IF intento < MAX_RETRIES + 1
                  THEN intento' = intento + 1 /\ pc_scr' = "navegar"
                  ELSE intento' = intento /\ pc_scr' = "urls"
    /\ UNCHANGED <<todas_html, exc_pendiente, captcha_vencido, capturadas_en,
                   hay_siguiente>>
    /\ UNCHANGED <<varsLlamada, varsDatos, varsSesion, varsHist, varsResto>>

\* lines 688-706: one attempt of _ir_pagina_siguiente (lines 638-653), which
\* returns False on every WebDriverException; a failed attempt is followed
\* by time.sleep(RETRY_BACKOFF ** intento); after MAX_RETRIES failed
\* attempts the loop is left
ScrNavegar ==
    /\ pc_scr = "navegar"
    /\ \E exito \in BOOLEAN :
          IF exito
          THEN /\ pagina_actual' = pagina_actual + 1
               /\ posicion' = posicion + 1
               /\ pc_scr' = "captcha"
               /\ UNCHANGED <<intento, esperas>>
          ELSE /\ UNCHANGED <<pagina_actual, posicion>>
               /\ esperas' = Append(esperas, Potencia(RETRY_BACKOFF, intento))
               /\ IF intento < MAX_RETRIES
                  THEN intento' = intento + 1 /\ pc_scr' = "navegar"
                  ELSE intento' = intento /\ pc_scr' = "urls"
    /\ UNCHANGED <<todas_html, exc_pendiente, captcha_vencido, capturadas_en,
                   hay_siguiente>>
    /\ UNCHANGED <<varsLlamada, varsDatos, varsSesion, varsHist, varsResto>>

\* mutant: the SecopRecaptchaError of line 712 is not caught
ScrCaptchaPropaga ==
    /\ pc_scr = "captcha"
    /\ \/ pc_scr' = "recopilar" /\ UNCHANGED <<captcha_vencido, exc_pendiente>>
       \/ /\ pc_scr' = "finally"
          /\ captcha_vencido' = "paginacion"
          /\ exc_pendiente' = TRUE
       \/ /\ pc_scr' = "finally"
          /\ exc_pendiente' = TRUE
          /\ UNCHANGED captcha_vencido
    /\ UNCHANGED <<pagina_actual, intento, todas_html>>
    /\ UNCHANGED <<esperas, posicion, capturadas_en, hay_siguiente>>
    /\ UNCHANGED <<varsLlamada, varsDatos, varsSesion, varsHist, varsResto>>

\* lines 708-715: manejar_recaptcha returns; or it raises
\* SecopRecaptchaError, which is caught and leaves the loop; or it raises
\* another exception, which is not caught
ScrCaptcha ==
    /\ pc_scr = "captcha"
    /\ \/ pc_scr' = "recopilar" /\ UNCHANGED <<captcha_vencido, exc_pendiente>>
       \/ /\ pc_scr' = "urls"
          /\ captcha_vencido' = "paginacion"
          /\ UNCHANGED exc_pendiente
       \/ /\ pc_scr' = "finally"
          /\ exc_pendiente' = TRUE
          /\ UNCHANGED captcha_vencido
    /\ UNCHANGED <<pagina_actual, intento, todas_html>>
    /\ UNCHANGED <<esperas, posicion, capturadas_en, hay_siguiente>>
    /\ UNCHANGED <<varsLlamada, varsDatos, varsSesion, varsHist, varsResto>>

\* lines 809-811: recopilar_html_paginas has returned, which ends its locals
\* and the record of its page transitions; extraer_urls_detalle swallows its
\* WebDriverException
ScrUrls ==
    /\ pc_scr = "urls"
    /\ pc_scr' = "finally"
    /\ exc_pendiente' = FALSE
    /\ pagina_actual' = 1
    /\ intento' = 1
    /\ esperas' = <<>>
    /\ capturadas_en' = <<>>
    /\ hay_siguiente' = FALSE
    /\ UNCHANGED <<todas_html, captcha_vencido, posicion>>
    /\ UNCHANGED <<varsLlamada, varsDatos, varsSesion, varsHist, varsResto>>

\* mutant: the finally block ends the call normally whatever happened
ScrFinallyTraga ==
    /\ pc_scr = "finally"
    /\ IF driver_propio /\ cerrar_al_final
       THEN CerrarDriver
       ELSE UNCHANGED <<driver, cerrar_llamadas>>
    /\ pc_scr' = "retorno"
    /\ UNCHANGED <<huerfana, creadas>>
    /\ UNCHANGED <<pagina_actual, intento, todas_html, exc_pendiente, varsRec>>
    /\ UNCHANGED <<varsLlamada, varsDatos, varsHist, varsResto>>

\* lines 817-819
ScrFinally ==
    /\ pc_scr = "finally"
    /\ IF driver_propio /\ cerrar_al_final
       THEN CerrarDriver
       ELSE UNCHANGED <<driver, cerrar_llamadas>>
    /\ pc_scr' = IF exc_pendiente THEN "excepcion" ELSE "retorno"
    /\ UNCHANGED <<huerfana, creadas>>
    /\ UNCHANGED <<pagina_actual, intento, todas_html, exc_pendiente, varsRec>>
    /\ UNCHANGED <<varsLlamada, varsDatos, varsHist, varsResto>>

\* ejecutar_scraping called on its own: the call returns or raises
ScrTerminar ==
    /\ modo = "scraping"
    /\ pc = "llamada"
    /\ pc_scr \in {"retorno", "excepcion"}
    /\ pc' = "fin"
    /\ codigo' = IF pc_scr = "retorno" THEN "retorno" ELSE "excepcion"
    /\ paginas_html' = IF pc_scr = "retorno" THEN todas_html ELSE paginas_html
    /\ UNCHANGED <<modo, driver_propio, cerrar_al_final, max_pages>>
    /\ UNCHANGED <<df_crudo, df_limpio, df_api, df_detalles, exc_selenium,
                   llamadas_api, salida, ret, reportes, args_historica>>
    /\ UNCHANGED <<varsSesion, varsScr, varsHist, varsResto>>

(***************************************************************************)
(* main.py, ejecutar_modo_busqueda, statement by statement.                *)
(***************************************************************************)
\* mutant: the fallback is consulted whatever the browser path produced
NecesitaFallbackSiempre(d) == TRUE

\* line 321
NecesitaFallback(d) == d = NULL \/ Len(d.filas) = 0

\* mutant: an empty API answer ends the run as a failure
CodigoSinResultadosFallo == "1"

\* line 331: the exit code when the API has no records
CodigoSinResultados == "0"

\* mutant: the API records are appended to the browser rows already parsed
DfLimpioTrasApiMezclado ==
    limpiar_dataframe(IF df_crudo = NULL THEN df_api ELSE PdConcat(df_crudo, df_api))

\* line 333: the cleaned set after the fallback answered
DfLimpioTrasApi == limpiar_dataframe(df_api)

\* the historical merge is entered with the cleaned set (lines 353-355)
LlamarHistorica ==
    /\ nuevos' = df_limpio
    /\ archivo_previo' = archivo
    /\ pc_hist' = "ini"
    /\ UNCHANGED <<sufijo, archivo, historica, combinado, pendientes>>

\* line 292, inside the outer try
BusCrearDriver ==
    /\ modo = "busqueda"
    /\ pc = "crear"
    /\ \E r \in ResultadosCrearDriver :
          /\ CrearDriver(r)
          /\ pc' = IF r = "retorna" THEN "llamada" ELSE "except"
          /\ pc_scr' = IF r = "retorna" THEN "rellenar" ELSE pc_scr
          /\ exc_pendiente' = (r /= "retorna")
    /\ UNCHANGED <<cerrar_llamadas, pagina_actual, intento, todas_html, varsRec>>
    /\ UNCHANGED <<modo, driver_propio, cerrar_al_final, max_pages>>
    /\ UNCHANGED <<varsDatos, varsHist, varsResto>>

\* lines 295-303: ejecutar_scraping has returned or raised
BusRecibirScraping ==
    /\ modo = "busqueda"
    /\ pc = "llamada"
    /\ pc_scr \in {"retorno", "excepcion"}
    /\ IF pc_scr = "retorno"
       THEN paginas_html' = todas_html /\ pc' = "parsear"
       ELSE paginas_html' = paginas_html /\ pc' = "finally"
    /\ UNCHANGED <<modo, driver_propio, cerrar_al_final, max_pages>>
    /\ UNCHANGED <<df_crudo, df_limpio, df_api, df_detalles, exc_selenium,
                   llamadas_api, salida, codigo, ret, reportes, args_historica>>
    /\ UNCHANGED <<varsSesion, varsScr, varsHist, varsResto>>

\* line 305
BusParsear ==
    /\ modo = "busqueda"
    /\ pc = "parsear"
    /\ LET r == parsear_todas_paginas(paginas_html)
       IN  IF EsError(r)
           THEN /\ exc_pendiente' = TRUE
                /\ pc' = "finally"
                /\ UNCHANGED df_crudo
           ELSE /\ exc_pendiente' = FALSE
                /\ pc' = "limpiar"
                /\ df_crudo' = r
    /\ UNCHANGED <<modo, driver_propio, cerrar_al_final, max_pages>>
    /\ UNCHANGED <<paginas_html, df_limpio, df_api, df_detalles, exc_selenium,
                   llamadas_api, salida, codigo, ret, reportes, args_historica>>
    /\ UNCHANGED <<pc_scr, pagina_actual, intento, todas_html, varsRec>>
    /\ UNCHANGED <<varsSesion, varsHist, varsResto>>

\* line 308: the cleaning returns, or an exception leaves it
BusLimpiar ==
    /\ modo = "busqueda"
    /\ pc = "limpiar"
    /\ \/ df_limpio' = limpiar_dataframe(df_crudo) /\ exc_pendiente' = FALSE
       \/ df_limpio' = df_limpio /\ exc_pendiente' = TRUE
    /\ pc' = "finally"
    /\ UNCHANGED <<modo, driver_propio, cerrar_al_final, max_pages>>
    /\ UNCHANGED <<paginas_html, df_crudo, df_api, df_detalles, exc_selenium,
                   llamadas_api, salida, codigo, ret, reportes, args_historica>>
    /\ UNCHANGED <<pc_scr, pagina_actual, intento, todas_html, varsRec>>
    /\ UNCHANGED <<varsSesion, varsHist, varsResto>>

\* mutant: the driver is closed at the end of the try body, not in a finally
BusFinallySoloExito ==
    /\ modo = "busqueda"
    /\ pc = "finally"
    /\ IF exc_pendiente
       THEN UNCHANGED <<driver, cerrar_llamadas>>
       ELSE CerrarDriver
    /\ pc' = IF exc_pendiente THEN "except"
             ELSE IF NecesitaFallback(df_limpio) THEN "api" ELSE "exportar"
    /\ UNCHANGED <<huerfana, creadas>>
    /\ UNCHANGED <<modo, driver_propio, cerrar_al_final, max_pages>>
    /\ UNCHANGED <<varsDatos, varsScr, varsHist, varsResto>>

\* mutant: the finally block leaves the driver as it is
BusFinallySinCerrar ==
    /\ modo = "busqueda"
    /\ pc = "finally"
    /\ pc' = IF exc_pendiente THEN "except"
             ELSE IF NecesitaFallback(df_limpio) THEN "api" ELSE "exportar"
    /\ UNCHANGED <<driver, cerrar_llamadas, huerfana, creadas>>
    /\ UNCHANGED <<modo, driver_propio, cerrar_al_final, max_pages>>
    /\ UNCHANGED <<varsDatos, varsScr, varsHist, varsResto>>

\* lines 311-312, then line 321 when no exception is pending
BusFinally ==
    /\ modo = "busqueda"
    /\ pc = "finally"
    /\ CerrarDriver
    /\ pc' = IF exc_pendiente THEN "except"
             ELSE IF NecesitaFallback(df_limpio) THEN "api" ELSE "exportar"
    /\ UNCHANGED <<huerfana, creadas>>
    /\ UNCHANGED <<modo, driver_propio, cerrar_al_final, max_pages>>
    /\ UNCHANGED <<varsDatos, varsScr, varsHist, varsResto>>

\* lines 314-318: the handler runs with exc_selenium bound
BusExceptSelenium ==
    /\ modo = "busqueda"
    /\ pc = "except"
    /\ exc_selenium' = "enlazada"
    /\ reportes' = reportes \cup {"fallo_selenium"}
    /\ exc_pendiente' = FALSE
    /\ pc' = "fin_except"
    /\ UNCHANGED <<modo, driver_propio, cerrar_al_final, max_pages>>
    /\ UNCHANGED <<paginas_html, df_crudo, df_limpio, df_api, df_detalles,
                   llamadas_api, salida, codigo, ret, args_historica>>
    /\ UNCHANGED <<pc_scr, pagina_actual, intento, todas_html, varsRec>>
    /\ UNCHANGED <<varsSesion, varsHist, varsResto>>

\* leaving "except Exception as exc_selenium" deletes the name (the
\* language's rule for the target of an except clause); then line 321
BusSalirExcept ==
    /\ modo = "busqueda"
    /\ pc = "fin_except"
    /\ exc_selenium' = "sin_enlazar"
    /\ pc' = IF NecesitaFallback(df_limpio) THEN "api" ELSE "exportar"
    /\ UNCHANGED <<modo, driver_propio, cerrar_al_final, max_pages>>
    /\ UNCHANGED <<paginas_html, df_crudo, df_limpio, df_api, df_detalles,
                   llamadas_api, salida, codigo, ret, reportes, args_historica>>
    /\ UNCHANGED <<varsSesion, varsScr, varsHist, varsResto>>

\* lines 325-331: the fallback query raises, or returns a frame; an empty
\* frame ends the run
BusConsultarApi ==
    /\ modo = "busqueda"
    /\ pc = "api"
    /\ llamadas_api' = llamadas_api + 1
    /\ \/ /\ pc' = "except_api"
          /\ UNCHANGED <<df_api, reportes, codigo>>
       \/ \E r \in RespuestasApi :
             /\ df_api' = r
             /\ IF Len(r.filas) = 0
                THEN /\ reportes' = reportes \cup {"sin_resultados_api"}
                     /\ codigo' = CodigoSinResultados
                     /\ pc' = "fin"
                ELSE /\ pc' = "limpiar_api"
                     /\ UNCHANGED <<reportes, codigo>>
    /\ UNCHANGED <<modo, driver_propio, cerrar_al_final, max_pages>>
    /\ UNCHANGED <<paginas_html, df_crudo, df_limpio, df_detalles, exc_selenium,
                   salida, ret, args_historica>>
    /\ UNCHANGED <<varsSesion, varsScr, varsHist, varsResto>>

\* line 333, inside the try of the fallback
BusLimpiarApi ==
    /\ modo = "busqueda"
    /\ pc = "limpiar_api"
    /\ \/ df_limpio' = DfLimpioTrasApi /\ pc' = "exportar"
       \/ df_limpio' = df_limpio /\ pc' = "except_api"
    /\ UNCHANGED <<modo, driver_propio, cerrar_al_final, max_pages>>
    /\ UNCHANGED <<paginas_html, df_crudo, df_api, df_detalles, exc_selenium,
                   llamadas_api, salida, codigo, ret, reportes, args_historica>>
    /\ UNCHANGED <<varsSesion, varsScr, varsHist, varsResto>>

\* lines 336-340: the f-string reads exc_selenium; reading an unbound local
\* raises UnboundLocalError inside the handler, which nothing catches
BusExceptApi ==
    /\ modo = "busqueda"
    /\ pc = "except_api"
    /\ IF exc_selenium = "enlazada"
       THEN /\ reportes' = reportes \cup {"error_api", "error_combinado"}
            /\ codigo' = "1"
       ELSE /\ reportes' = reportes \cup {"error_api"}
            /\ codigo' = "excepcion"
    /\ pc' = "fin"
    /\ UNCHANGED <<modo, driver_propio, cerrar_al_final, max_pages>>
    /\ UNCHANGED <<paginas_html, df_crudo, df_limpio, df_api, df_detalles,
                   exc_selenium, llamadas_api, salida, ret, args_historica>>
    /\ UNCHANGED <<varsSesion, varsScr, varsHist, varsResto>>

\* lines 343-355: the export, then the optional historical merge; an
\* exception of to_csv is not handled
BusExportar ==
    /\ modo = "busqueda"
    /\ pc = "exportar"
    /\ \/ /\ salida' = df_limpio
          /\ IF args_historica
             THEN /\ LlamarHistorica
                  /\ pc' = "historica"
                  /\ UNCHANGED codigo
             ELSE /\ UNCHANGED varsHist
                  /\ pc' = "fin"
                  /\ codigo' = "0"
       \/ /\ codigo' = "excepcion"
          /\ pc' = "fin"
          /\ UNCHANGED <<salida, varsHist>>
    /\ UNCHANGED <<modo, driver_propio, cerrar_al_final, max_pages>>
    /\ UNCHANGED <<paginas_html, df_crudo, df_limpio, df_api, df_detalles,
                   exc_selenium, llamadas_api, ret, reportes, args_historica>>
    /\ UNCHANGED <<varsSesion, varsScr, varsResto>>

\* lines 357-372: actualizar_base_historica has returned or raised
BusTrasHistorica ==
    /\ modo = "busqueda"
    /\ pc = "historica"
    /\ pc_hist \in {"fin", "excepcion"}
    /\ codigo' = IF pc_hist = "fin" THEN "0" ELSE "excepcion"
    /\ pc' = "fin"
    /\ UNCHANGED <<modo, driver_propio, cerrar_al_final, max_pages>>
    /\ UNCHANGED <<paginas_html, df_crudo, df_limpio, df_api, df_detalles,
                   exc_selenium, llamadas_api, salida, ret, reportes,
                   args_historica>>
    /\ UNCHANGED <<varsSesion, varsScr, varsHist, varsResto>>

(***************************************************************************)
(* main.py, ejecutar_modo_detalle, statement by statement.                 *)
(***************************************************************************)
\* lines 397-430: the checks made before any driver exists; read_csv of
\* the input can raise, outside any try
ResultadosValidacion ==
    {"sin_entrada", "no_existe", "ilegible", "sin_columna", "sin_urls", "ok"}

CodigoValidacion(v) ==
    IF v \in {"sin_entrada", "no_existe", "sin_columna"} THEN "1"
    ELSE IF v = "sin_urls" THEN "0"
    ELSE IF v = "ilegible" THEN "excepcion"
    ELSE "ninguno"

DetValidar ==
    /\ modo = "detalle"
    /\ pc = "validar"
    /\ \E v \in ResultadosValidacion :
          /\ codigo' = CodigoValidacion(v)
          /\ pc' = IF v = "ok" THEN "crear" ELSE "fin"
    /\ UNCHANGED <<modo, driver_propio, cerrar_al_final, max_pages>>
    /\ UNCHANGED <<paginas_html, df_crudo, df_limpio, df_api, df_detalles,
                   exc_selenium, llamadas_api, salida, ret, reportes,
                   args_historica>>
    /\ UNCHANGED <<varsSesion, varsScr, varsHist, varsResto>>

\* line 432, before the try
DetCrearDriver ==
    /\ modo = "detalle"
    /\ pc = "crear"
    /\ \E r \in ResultadosCrearDriver :
          /\ CrearDriver(r)
          /\ pc' = IF r = "retorna" THEN "extraer" ELSE "fin"
          /\ codigo' = IF r = "retorna" THEN codigo ELSE "excepcion"
    /\ UNCHANGED cerrar_llamadas
    /\ UNCHANGED <<modo, driver_propio, cerrar_al_final, max_pages>>
    /\ UNCHANGED <<paginas_html, df_crudo, df_limpio, df_api, df_detalles,
                   exc_selenium, llamadas_api, salida, ret, reportes,
                   args_historica>>
    /\ UNCHANGED <<varsScr, varsHist, varsResto>>

\* lines 434-447: the extraction raises, returns nothing, or returns records
DetExtraer ==
    /\ modo = "detalle"
    /\ pc = "extraer"
    /\ \/ /\ ret' = "1"
          /\ pc' = "finally"
          /\ UNCHANGED df_detalles
       \/ \E r \in ResultadosDetalle :
             /\ df_detalles' = r
             /\ IF Len(r.filas) = 0
                THEN ret' = "0" /\ pc' = "finally"
                ELSE ret' = ret /\ pc' = "limpiar"
    /\ UNCHANGED <<modo, driver_propio, cerrar_al_final, max_pages>>
    /\ UNCHANGED <<paginas_html, df_crudo, df_limpio, df_api, exc_selenium,
                   llamadas_api, salida, codigo, reportes, args_historica>>
    /\ UNCHANGED <<varsSesion, varsScr, varsHist, varsResto>>

\* line 451
DetLimpiar ==
    /\ modo = "detalle"
    /\ pc = "limpiar"
    /\ \/ df_limpio' = limpiar_dataframe(df_detalles) /\ pc' = "exportar"
             /\ ret' = ret
       \/ df_limpio' = df_limpio /\ pc' = "finally" /\ ret' = "1"
    /\ UNCHANGED <<modo, driver_propio, cerrar_al_final, max_pages>>
    /\ UNCHANGED <<paginas_html, df_crudo, df_api, df_detalles, exc_selenium,
                   llamadas_api, salida, codigo, reportes, args_historica>>
    /\ UNCHANGED <<varsSesion, varsScr, varsHist, varsResto>>

\* lines 454-465
DetExportar ==
    /\ modo = "detalle"
    /\ pc = "exportar"
    /\ \/ /\ salida' = df_limpio
          /\ IF args_historica
             THEN /\ LlamarHistorica
                  /\ pc' = "historica"
                  /\ ret' = ret
             ELSE /\ UNCHANGED varsHist
                  /\ pc' = "finally"
                  /\ ret' = "0"
       \/ /\ ret' = "1"
          /\ pc' = "finally"
          /\ UNCHANGED <<salida, varsHist>>
    /\ UNCHANGED <<modo, driver_propio, cerrar_al_final, max_pages>>
    /\ UNCHANGED <<paginas_html, df_crudo, df_limpio, df_api, df_detalles,
                   exc_selenium, llamadas_api, codigo, reportes, args_historica>>
    /\ UNCHANGED <<varsSesion, varsScr, varsResto>>

\* lines 467-491: the merge has returned (return 0) or raised (return 1)
DetTrasHistorica ==
    /\ modo = "detalle"
    /\ pc = "historica"
    /\ pc_hist \in {"fin", "excepcion"}
    /\ ret' = IF pc_hist = "fin" THEN "0" ELSE "1"
    /\ pc' = "finally"
    /\ UNCHANGED <<modo, driver_propio, cerrar_al_final, max_pages>>
    /\ UNCHANGED <<paginas_html, df_crudo, df_limpio, df_api, df_detalles,
                   exc_selenium, llamadas_api, salida, codigo, reportes,
                   args_historica>>
    /\ UNCHANGED <<varsSesion, varsScr, varsHist, varsResto>>

\* lines 493-494, then the pending return
DetFinally ==
    /\ modo = "detalle"
    /\ pc = "finally"
    /\ CerrarDriver
    /\ codigo' = ret
    /\ pc' = "fin"
    /\ UNCHANGED <<huerfana, creadas>>
    /\ UNCHANGED <<modo, driver_propio, cerrar_al_final, max_pages>>
    /\ UNCHANGED <<paginas_html, df_crudo, df_limpio, df_api, df_detalles,
                   exc_selenium, llamadas_api, salida, ret, reportes,
                   args_historica>>
    /\ UNCHANGED <<varsScr, varsHist, varsResto>>

OrqInactivo ==
    /\ modo = "off"
    /\ pc = "off"
    /\ driver_propio = FALSE
    /\ cerrar_al_final = FALSE
    /\ max_pages = 0
    /\ paginas_html = <<>>
    /\ df_crudo = NULL
    /\ df_limpio = NULL
    /\ df_api = NULL
    /\ df_detalles = NULL
    /\ exc_selenium = "sin_enlazar"
    /\ llamadas_api = 0
    /\ salida = NoExiste
    /\ codigo = "ninguno"
    /\ ret = "ninguno"
    /\ reportes = {}
    /\ args_historica = FALSE
    /\ driver = "ninguno"
    /\ huerfana = FALSE
    /\ creadas = 0
    /\ cerrar_llamadas = 0
    /\ pc_scr = "off"
    /\ pagina_actual = 1
    /\ intento = 1
    /\ todas_html = <<>>
    /\ exc_pendiente = FALSE
    /\ captcha_vencido = "no"
    /\ esperas = <<>>
    /\ posicion = 1
    /\ capturadas_en = <<>>
    /\ hay_siguiente = FALSE

(***************************************************************************)
(* parser.py, parsear_todas_paginas, statement by statement (lines         *)
(* 309-349).                                                               *)
(***************************************************************************)
\* lines 309-315
ParInicio ==
    /\ pc_par = "ini"
    /\ pc_par' = IF par_html = <<>> THEN "excepcion" ELSE "bucle"
    /\ UNCHANGED <<par_html, par_idx, dataframes, errores, df_consolidado>>
    /\ UNCHANGED fueraPar

\* mutant: the parse error of one page ends the consolidation
ParPaginaFatal ==
    /\ pc_par = "bucle"
    /\ par_idx <= Len(par_html)
    /\ LET df_pagina == parsear_pagina(par_html[par_idx])
       IN  IF EsError(df_pagina)
           THEN /\ errores' = errores + 1
                /\ pc_par' = "excepcion"
                /\ UNCHANGED dataframes
           ELSE /\ dataframes' = Append(dataframes, df_pagina)
                /\ UNCHANGED <<errores, pc_par>>
    /\ par_idx' = par_idx + 1
    /\ UNCHANGED <<par_html, df_consolidado>>
    /\ UNCHANGED fueraPar

\* lines 316-322: a page that raises SecopParsingError is counted and skipped
ParPagina ==
    /\ pc_par = "bucle"
    /\ par_idx <= Len(par_html)
    /\ LET df_pagina == parsear_pagina(par_html[par_idx])
       IN  IF EsError(df_pagina)
           THEN errores' = errores + 1 /\ UNCHANGED dataframes
           ELSE dataframes' = Append(dataframes, df_pagina) /\ UNCHANGED errores
    /\ par_idx' = par_idx + 1
    /\ UNCHANGED <<par_html, df_consolidado, pc_par>>
    /\ UNCHANGED fueraPar

\* lines 324-349
ParConsolidar ==
    /\ pc_par = "bucle"
    /\ par_idx > Len(par_html)
    /\ IF dataframes = <<>>
       THEN pc_par' = "excepcion" /\ UNCHANGED df_consolidado
       ELSE /\ df_consolidado' = DropDuplicatesExactos(ConcatFrames(dataframes))
            /\ pc_par' = "fin"
    /\ UNCHANGED <<par_html, par_idx, dataframes, errores>>
    /\ UNCHANGED fueraPar

ParInactivo ==
    /\ par_html = <<>>
    /\ par_idx = 1
    /\ dataframes = <<>>
    /\ errores = 0
    /\ df_consolidado = NoLlamado
    /\ pc_par = "off"

\* pages given to the parser: those of the portal model, a page that repeats
\* a row, and a page whose second row is one cell short
FilaCorta == <<ClaveB>>

PaginasParser ==
    PaginasPosibles
        \cup {Pagina(TRUE, <<>>, <<FilaA, FilaA>>),
              Pagina(TRUE, <<>>, <<FilaA, FilaCorta>>)}

(***************************************************************************)
(* api_scraper.py: _construir_where.  A text argument is a string, with "" *)
(* for both None and the empty string, which the function's `if x:` tests  *)
(* do not tell apart.  estado is a sequence of characters, because the     *)
(* function lowers its case.  A date is its text, a sequence of            *)
(* characters.  The clause is the sequence of its conditions with          *)
(* the separator between them; a condition is the column, the operator and *)
(* the quoted values.                                                      *)
(***************************************************************************)
\* lines 47-57
MODALIDAD_MAP ==
    ("1" :> "Licitación pública")
    @@ ("11" :> "Selección Abreviada de Menor Cuantía")
    @@ ("9" :> "Selección abreviada subasta inversa")
    @@ ("13" :> "Mínima cuantía")
    @@ ("17" :> "Selección Abreviada servicios de Salud")
    @@ ("10" :> "Concurso de méritos abierto")
    @@ ("12" :> "Contratación directa")
    @@ ("4" :> "Contratación régimen especial")
    @@ ("2" :> "Contratación Directa (con ofertas)")

\* lines 59-93
DEPARTAMENTO_MAP ==
    ("91000" :> "Amazonas")
    @@ ("5000" :> "Antioquia")
    @@ ("81000" :> "Arauca")
    @@ ("8000" :> "Atlántico")
    @@ ("1100" :> "Bogotá D.C.")
    @@ ("1300" :> "Bolívar")
    @@ ("15000" :> "Boyacá")
    @@ ("17000" :> "Caldas")
    @@ ("1800" :> "Caquetá")
    @@ ("85000" :> "Casanare")
    @@ ("19000" :> "Cauca")
    @@ ("20000" :> "Cesar")
    @@ ("27000" :> "Chocó")
    @@ ("23000" :> "Córdoba")
    @@ ("25000" :> "Cundinamarca")
    @@ ("94000" :> "Guainía")
    @@ ("95000" :> "Guaviare")
    @@ ("41000" :> "Huila")
    @@ ("44000" :> "La Guajira")
    @@ ("47000" :> "Magdalena")
    @@ ("50000" :> "Meta")
    @@ ("52000" :> "Nariño")
    @@ ("54000" :> "Norte De Santander")
    @@ ("86000" :> "Putumayo")
    @@ ("63000" :> "Quindío")
    @@ ("66000" :> "Risaralda")
    @@ ("88000" :> "San Andrés, Providencia y Santa Catalina")
    @@ ("668000" :> "Santander")
    @@ ("70000" :> "Sucre")
    @@ ("73000" :> "Tolima")
    @@ ("76000" :> "Valle del Cauca")
    @@ ("97000" :> "Vaupés")
    @@ ("99000" :> "Vichada")

\* lines 96-103
ESTADO_CELEBRADO_EQUIVALENTES ==
    << <<"C", "e", "r", "r", "a", "d", "o">>,
       <<"t", "e", "r", "m", "i", "n", "a", "d", "o">>,
       <<"E", "n", " ", "e", "j", "e", "c", "u", "c", "i", "ó", "n">>,
       <<"M", "o", "d", "i", "f", "i", "c", "a", "d", "o">>,
       <<"P", "r", "o", "r", "r", "o", "g", "a", "d", "o">>,
       <<"c", "e", "d", "i", "d", "o">> >>

\* dict.get(k, k)
GetODefecto(tabla, k) == IF k \in DOMAIN tabla THEN tabla[k] ELSE k

\* str.lower() of one character, for the letters of the statuses and links
LowerCaracter(c) ==
    CASE c = "A" -> "a" [] c = "B" -> "b" [] c = "C" -> "c" [] c = "D" -> "d"
      [] c = "E" -> "e" [] c = "L" -> "l" [] c = "O" -> "o" [] c = "R" -> "r"
      [] c = "P" -> "p" [] c = "T" -> "t"
      [] OTHER -> c

Lower(t) == [i \in 1..Len(t) |-> LowerCaracter(t[i])]

Condicion(columna, operador, valores) ==
    [clase |-> "condicion", columna |-> columna, operador |-> operador,
     valores |-> valores]

SeparadorAnd == [clase |-> "separador", texto |-> " AND "]

\* " AND ".join(condiciones)
RECURSIVE JoinAnd(_)
JoinAnd(condiciones) ==
    IF Len(condiciones) <= 1 THEN condiciones
    ELSE <<Head(condiciones), SeparadorAnd>> \o JoinAnd(Tail(condiciones))

\* mutant: the status is compared as written
EsCelebradoExacto(est) == est = <<"c", "e", "l", "e", "b", "r", "a", "d", "o">>

\* line 173: estado.lower() == "celebrado"
EsCelebrado(est) == Lower(est) = <<"c", "e", "l", "e", "b", "r", "a", "d", "o">>

\* lines 155-158
CondDepartamento(a) ==
    IF a.departamento /= ""
    THEN <<Condicion("departamento", "=",
                     <<GetODefecto(DEPARTAMENTO_MAP, a.departamento)>>)>>
    ELSE <<>>

\* lines 160-169: a list of modalities gives an IN clause, one modality an
\* equality; an empty list is falsy
CondModalidad(a) ==
    IF a.modalidad.lista
    THEN IF a.modalidad.v /= <<>>
         THEN <<Condicion("modalidad_de_contratacion", "in",
                          [i \in 1..Len(a.modalidad.v) |->
                              GetODefecto(MODALIDAD_MAP, a.modalidad.v[i])])>>
         ELSE <<>>
    ELSE IF a.modalidad.v /= ""
         THEN <<Condicion("modalidad_de_contratacion", "=",
                          <<GetODefecto(MODALIDAD_MAP, a.modalidad.v)>>)>>
         ELSE <<>>

\* lines 171-177
CondEstado(a) ==
    IF a.estado /= <<>>
    THEN IF EsCelebrado(a.estado)
         THEN <<Condicion("estado_contrato", "in",
                          ESTADO_CELEBRADO_EQUIVALENTES)>>
         ELSE <<Condicion("estado_contrato", "=", <<a.estado>>)>>
    ELSE <<>>

\* lines 179-181
CondPalabraClave(a) ==
    IF a.palabra_clave /= ""
    THEN <<Condicion("upper(objeto_del_contrato)", "like upper",
                     <<"%", a.palabra_clave, "%">>)>>
    ELSE <<>>

\* lines 183-195: fecha.split("/") with three parts gives
\* parts[2]-parts[1]-parts[0]T<hora>; an empty date, or one that does not
\* split into three parts, gives no condition
CondFecha(fecha, operador, hora) ==
    IF fecha /= <<>> /\ Len(Split(fecha, "/")) = 3
    THEN LET parts == Split(fecha, "/")
         IN  <<Condicion("fecha_de_inicio_del_contrato", operador,
                         <<parts[3], "-", parts[2], "-", parts[1], hora>>)>>
    ELSE <<>>

_construir_where(a) ==
    JoinAnd(CondDepartamento(a) \o CondModalidad(a) \o CondEstado(a)
            \o CondPalabraClave(a)
            \o CondFecha(a.fecha_inicio, ">=", "T00:00:00")
            \o CondFecha(a.fecha_fin, "<=", "T23:59:59"))

ConstruirWhere ==
    /\ pc_where = "ini"
    /\ where' = _construir_where(args_where)
    /\ pc_where' = "fin"
    /\ UNCHANGED args_where
    /\ UNCHANGED fueraWhere

Escalar(v) == [lista |-> FALSE, v |-> v]
Lista(v) == [lista |-> TRUE, v |-> v]

DepartamentosEntrada == {"", "668000", "5000", "99999", "Santander"}
ModalidadesEntrada ==
    {Escalar(""), Escalar("13"), Escalar("77"), Escalar("Mínima cuantía"),
     Lista(<<>>), Lista(<<"13", "77">>)}
EstadosEntrada ==
    { <<>>,
      <<"c", "e", "l", "e", "b", "r", "a", "d", "o">>,
      <<"C", "e", "l", "e", "b", "r", "a", "d", "o">>,
      <<"C", "E", "L", "E", "B", "R", "A", "D", "O">>,
      <<"c", "E", "L", "E", "B", "R", "A", "D", "o">>,
      <<"C", "e", "r", "r", "a", "d", "o">>,
      <<"c", "e", "l", "e", "b", "r", "a", "d">>,
      <<"C", "e", "l", "e", "b", "r", "a", "d", "o", "s">> }
PalabrasEntrada == {"", "obra"}
FechasEntrada ==
    { <<>>,
      <<"0", "1", "/", "0", "2", "/", "2", "0", "2", "4">>,
      <<"2", "0", "2", "4", "-", "0", "2", "-", "0", "1">>,
      <<"2", "0", "2", "4", "/", "0", "2", "/", "0", "1">>,
      <<"h", "o", "y", "/", "o", "/", "x">>,
      <<"0", "1", "/", "2", "0", "2", "4">>,
      <<"0", "1", "/", "0", "2", "/", "2", "0", "2", "4", "/", "5">> }

ArgsWhere ==
    [departamento : DepartamentosEntrada, modalidad : ModalidadesEntrada,
     estado : EstadosEntrada, palabra_clave : PalabrasEntrada,
     fecha_inicio : FechasEntrada, fecha_fin : FechasEntrada]

WhereInactivo ==
    /\ args_where = NoLlamado
    /\ where = NoLlamado
    /\ pc_where = "off"

(***************************************************************************)
(* scraper.py: manejar_recaptcha.  The clock is time.monotonic() in        *)
(* seconds, counted from the call.  _detectar_recaptcha answers that an    *)
(* indicator is present or absent, or raises an exception other than       *)
(* NoSuchElementException, which it does not catch.                        *)
(***************************************************************************)
MaxTimeout == 7
\* the seconds a poll can take beyond its sleep
MaxDemora == 1
\* line 194: time.sleep(2)
INTERVALO_SONDEO == 2

Detecciones == {"presente", "ausente", "error"}

\* lines 185-192
CapDetectar ==
    /\ pc_cap = "ini"
    /\ \E d \in Detecciones :
          /\ deteccion' = d
          /\ pc_cap' = CASE d = "ausente" -> "retorno"
                         [] d = "presente" -> "bucle"
                         [] OTHER -> "otra_excepcion"
    /\ inicio' = reloj
    /\ UNCHANGED <<cap_timeout, reloj, sondeos, dormido>>
    /\ UNCHANGED fueraCap

\* mutant: when the window has elapsed the function returns
CapVentanaRetorna ==
    /\ pc_cap = "bucle"
    /\ pc_cap' = IF reloj - inicio < cap_timeout THEN "dormir" ELSE "retorno"
    /\ UNCHANGED <<cap_timeout, reloj, inicio, deteccion, sondeos, dormido>>
    /\ UNCHANGED fueraCap

\* line 193, and lines 199-202 when the condition is false
CapVentana ==
    /\ pc_cap = "bucle"
    /\ pc_cap' = IF reloj - inicio < cap_timeout THEN "dormir" ELSE "excepcion"
    /\ UNCHANGED <<cap_timeout, reloj, inicio, deteccion, sondeos, dormido>>
    /\ UNCHANGED fueraCap

\* lines 194-197: the sleep, then the detection
CapSondear ==
    /\ pc_cap = "dormir"
    /\ \E demora \in 0..MaxDemora :
          reloj' = reloj + INTERVALO_SONDEO + demora
    /\ dormido' = dormido + INTERVALO_SONDEO
    /\ sondeos' = sondeos + 1
    /\ \E d \in Detecciones :
          /\ deteccion' = d
          /\ pc_cap' = CASE d = "ausente" -> "retorno"
                         [] d = "presente" -> "bucle"
                         [] OTHER -> "otra_excepcion"
    /\ UNCHANGED <<cap_timeout, inicio>>
    /\ UNCHANGED fueraCap

CapInactivo ==
    /\ cap_timeout = 0
    /\ reloj = 0
    /\ inicio = 0
    /\ deteccion = "ninguna"
    /\ sondeos = 0
    /\ dormido = 0
    /\ pc_cap = "off"

(***************************************************************************)
(* scraper.py: verificar_resultados.  The page is what the function reads  *)
(* of it: the text of the total indicator when the element exists, whether *)
(* each of the two table selectors finds an element, and which phrases of  *)
(* mensajes_vacios the lowered page source contains.                       *)
(***************************************************************************)
MaxLenTotal == 3
AlfabetoTotal == {"0", "2", ".", " ", "r"}

\* lines 604-609
mensajes_vacios ==
    {"no se encontraron resultados", "sin resultados", "no records found",
     "0 registro"}

\* str.isdigit(), on the characters of the model
IsDigit(t) == t /= <<>> /\ \A i \in 1..Len(t) : t[i] \in Digitos

Retorno(total) == [clase |-> "retorno", total |-> total]

\* lines 577-578
TotalDe(t) ==
    LET texto == SinCaracter(SinCaracter(Strip(t), "."), ",")
    IN  IF IsDigit(texto) THEN ANatural(texto) ELSE 0

verificar_resultados(indicador, tabla, tabla_generica, frases) ==
    IF indicador.presente
    THEN IF TotalDe(indicador.texto) = 0
         THEN SecopEmptyTableError
         ELSE Retorno(TotalDe(indicador.texto))
    ELSE IF tabla THEN Retorno(0)
    ELSE IF tabla_generica THEN Retorno(0)
    ELSE IF frases /= {} THEN SecopEmptyTableError
    ELSE Retorno(0)

VerificarResultados ==
    /\ pc_ver = "ini"
    /\ ver_resultado' = verificar_resultados(ver_indicador, ver_tabla,
                                             ver_tabla_generica, ver_frases)
    /\ pc_ver' = "fin"
    /\ UNCHANGED <<ver_indicador, ver_tabla, ver_tabla_generica, ver_frases>>
    /\ UNCHANGED fueraVer

SinIndicador == [presente |-> FALSE, texto |-> <<>>]
Indicador(t) == [presente |-> TRUE, texto |-> t]

VerInactivo ==
    /\ ver_indicador = SinIndicador
    /\ ver_tabla = FALSE
    /\ ver_tabla_generica = FALSE
    /\ ver_frases = {}
    /\ ver_resultado = NoLlamado
    /\ pc_ver = "off"

(***************************************************************************)
(* api_scraper.py: consultar_contratos and contar_registros.  Records are  *)
(* counted, not held.  The server answers a query with a number of rows    *)
(* (it may ignore the limit) or the request raises.                        *)
(***************************************************************************)
API_PAGE_SIZE == 50000
API_MAX_RECORDS == 300000
\* the totals and maxima considered lie within one record of a multiple of
\* the page size, up to MaxLotes pages
MaxLotes == 2

Min(a, b) == IF a <= b THEN a ELSE b

SinFechas(a) == [a EXCEPT !.fecha_inicio = <<>>, !.fecha_fin = <<>>]

\* lines 243 and 284: contar_registros is called with, and passes on, the
\* department, modality, status and keyword only
WhereDeConteo(a) == _construir_where(SinFechas(a))

\* lines 289 and 318: a DataFrame, of which the number of rows is kept
DataFrameDe(n) == [clase |-> "DataFrame", filas |-> n]

\* lines 279-282
ConWhere ==
    /\ pc_con = "where"
    /\ con_where' = _construir_where(con_args)
    /\ pc_con' = "contar"
    /\ UNCHANGED <<con_args, max_registros, where_conteo, con_total,
                   registros_a_obtener, offset, all_records, peticiones,
                   longitudes, con_ret>>
    /\ UNCHANGED fueraCon

CercaDeLotes ==
    {n \in {k * API_PAGE_SIZE + d : k \in 0..MaxLotes, d \in {-1, 0, 1}} :
        n >= 0}

\* lines 284-292: the count query, then the early return or the start of
\* the loop
ConContar ==
    /\ pc_con = "contar"
    /\ where_conteo' = WhereDeConteo(con_args)
    /\ \/ /\ pc_con' = "excepcion"
          /\ UNCHANGED <<con_total, registros_a_obtener, offset, all_records,
                         con_ret>>
       \/ \E t \in CercaDeLotes :
             /\ con_total' = t
             /\ IF t = 0
                THEN /\ con_ret' = DataFrameDe(0)
                     /\ pc_con' = "fin"
                     /\ UNCHANGED <<registros_a_obtener, offset, all_records>>
                ELSE /\ registros_a_obtener' = Min(t, max_registros)
                     /\ all_records' = 0
                     /\ offset' = 0
                     /\ pc_con' = "bucle"
                     /\ UNCHANGED con_ret
    /\ UNCHANGED <<con_args, max_registros, con_where, peticiones, longitudes>>
    /\ UNCHANGED fueraCon

Peticion(w, limit, desde) == [where |-> w, limit |-> limit, offset |-> desde]

\* what the server may answer to a query for limit rows
Respuestas(limit) == {n \in {0, 1, limit - 1, limit, limit + 1} : n >= 0}

\* mutant: every page query asks for a whole page
page_size_fijo(obtener, desde) == API_PAGE_SIZE

\* line 298
page_size(obtener, desde) == Min(API_PAGE_SIZE, obtener - desde)

\* lines 297-316: one turn of the loop
ConPagina ==
    /\ pc_con = "bucle"
    /\ offset < registros_a_obtener
    /\ LET limit == page_size(registros_a_obtener, offset)
       IN  /\ peticiones' = Append(peticiones,
                                   Peticion(con_where, limit, offset))
           /\ \/ /\ pc_con' = "excepcion"
                 /\ UNCHANGED <<longitudes, offset, all_records>>
              \/ \E n \in Respuestas(limit) :
                    /\ longitudes' = Append(longitudes, n)
                    /\ IF n = 0
                       THEN /\ pc_con' = "df"
                            /\ UNCHANGED <<offset, all_records>>
                       ELSE /\ all_records' = all_records + n
                            /\ offset' = offset + n
                            /\ pc_con' = IF n < limit THEN "df" ELSE "bucle"
    /\ UNCHANGED <<con_args, max_registros, con_where, where_conteo, con_total,
                   registros_a_obtener, con_ret>>
    /\ UNCHANGED fueraCon

\* lines 297 and 318-320: the loop condition fails or the loop was left
ConRetornar ==
    /\ \/ pc_con = "df"
       \/ pc_con = "bucle" /\ offset >= registros_a_obtener
    /\ con_ret' = DataFrameDe(all_records)
    /\ pc_con' = "fin"
    /\ UNCHANGED <<con_args, max_registros, con_where, where_conteo, con_total,
                   registros_a_obtener, offset, all_records, peticiones,
                   longitudes>>
    /\ UNCHANGED fueraCon

\* the filters of the query: a department or none, each date well formed or
\* absent
ArgsCon ==
    [departamento : {"", "668000"}, modalidad : {Escalar("")},
     estado : {<<>>}, palabra_clave : {"", "obra"},
     fecha_inicio : {<<>>, <<"0", "1", "/", "0", "2", "/", "2", "0", "2", "4">>},
     fecha_fin : {<<>>, <<"2", "8", "/", "0", "2", "/", "2", "0", "2", "4">>}]

\* max_pages * 25 of consultar_desde_params, the default, and values around
\* the page size
MaximosEntrada == CercaDeLotes \cup {25, API_MAX_RECORDS}

ConInactivo ==
    /\ con_args = NoLlamado
    /\ max_registros = 0
    /\ con_where = <<>>
    /\ where_conteo = <<>>
    /\ con_total = 0
    /\ registros_a_obtener = 0
    /\ offset = 0
    /\ all_records = 0
    /\ peticiones = <<>>
    /\ longitudes = <<>>
    /\ con_ret = NoLlamado
    /\ pc_con = "off"

(***************************************************************************)
(* detail_scraper.py: extraer_detalles_masivo.  extraer_detalle_proceso    *)
(* returns a detail or None (it catches the WebDriver exceptions itself);  *)
(* a detail is truthy.  A record is named by the URL it was read from.     *)
(***************************************************************************)
MaxUrls == 4
MaxErrores == 3

UrlsDeDetalle == {"u1", "u2"}

\* mutant: a success leaves the counter as it is
TrasVisitaSinReinicio(exito, contados) ==
    IF exito THEN contados ELSE contados + 1

\* lines 337-341
TrasVisita(exito, contados) == IF exito THEN 0 ELSE contados + 1

\* lines 330-351: one turn of the loop, up to the abort test
MasVisitar ==
    /\ pc_mas = "bucle"
    /\ mas_idx < Len(urls)
    /\ \E exito \in BOOLEAN :
          /\ exitos' = Append(exitos, exito)
          /\ resultados' = IF exito THEN Append(resultados, urls[mas_idx + 1])
                           ELSE resultados
          /\ errores_consecutivos' = TrasVisita(exito, errores_consecutivos)
          /\ pc_mas' = IF TrasVisita(exito, errores_consecutivos) >= max_errores
                       THEN "abortado" ELSE "bucle"
    /\ mas_idx' = mas_idx + 1
    /\ UNCHANGED <<urls, max_errores, mas_ret>>
    /\ UNCHANGED fueraMas

\* lines 361-379: the loop is exhausted or was left; an empty frame with the
\* canonical columns when there is no record, else one row per record
MasRetornar ==
    /\ \/ pc_mas = "abortado"
       \/ pc_mas = "bucle" /\ mas_idx >= Len(urls)
    /\ mas_ret' = [clase |-> "DataFrame", filas |-> resultados]
    /\ pc_mas' = IF pc_mas = "abortado" THEN "fin_abortado" ELSE "fin"
    /\ UNCHANGED <<urls, max_errores, mas_idx, exitos, resultados,
                   errores_consecutivos>>
    /\ UNCHANGED fueraMas

MasInactivo ==
    /\ urls = <<>>
    /\ max_errores = 0
    /\ mas_idx = 0
    /\ exitos = <<>>
    /\ resultados = <<>>
    /\ errores_consecutivos = 0
    /\ mas_ret = NoLlamado
    /\ pc_mas = "off"

(***************************************************************************)
(* scraper.py: rellenar_formulario from the department dropdown on, with   *)
(* _esperar_opciones_estado.  The portal fills the municipality dropdown   *)
(* after a department is chosen and the status dropdown after the page is  *)
(* touched, each at a moment of its own or never; until then a dropdown    *)
(* holds its placeholder only.                                             *)
(***************************************************************************)
\* the polls WebDriverWait makes before its timeout
MaxSondeos == 3

\* the portal adds the options of a dropdown
AjaxCargar ==
    /\ pc_form \in {"municipio", "sel_municipio", "estado", "sondeo",
                    "sel_estado"}
    /\ \E d \in {"municipio", "estado"} :
          /\ ~cargadas[d]
          /\ d = "municipio" => form_params.departamento
          /\ cargadas' = [cargadas EXCEPT ![d] = TRUE]
    /\ UNCHANGED <<form_params, form_sondeos, observado, selecciones, pc_form>>
    /\ UNCHANGED fueraForm

\* line 443: _seleccionar_dropdown_por_valor on the department
FormDepartamento ==
    /\ pc_form = "departamento"
    /\ pc_form' = "municipio"
    /\ UNCHANGED <<form_params, cargadas, form_sondeos, observado, selecciones>>
    /\ UNCHANGED fueraForm

\* lines 446-447: the test and the sleep of two seconds
FormDormir ==
    /\ pc_form = "municipio"
    /\ pc_form' = IF form_params.departamento /\ form_params.municipio
                  THEN "sel_municipio" ELSE "estado"
    /\ UNCHANGED <<form_params, cargadas, form_sondeos, observado, selecciones>>
    /\ UNCHANGED fueraForm

\* a call of _seleccionar_dropdown: select_by_visible_text on the dropdown as
\* it is at that moment
Seleccion(d, con_opciones, sondeo) ==
    [dropdown |-> d, con_opciones |-> con_opciones, sondeo |-> sondeo]

\* line 448
FormSeleccionarMunicipio ==
    /\ pc_form = "sel_municipio"
    /\ selecciones' = Append(selecciones,
                             Seleccion("municipio", cargadas.municipio, "no"))
    /\ pc_form' = "estado"
    /\ UNCHANGED <<form_params, cargadas, form_sondeos, observado>>
    /\ UNCHANGED fueraForm

\* line 451
FormEstado ==
    /\ pc_form = "estado"
    /\ pc_form' = IF form_params.estado THEN "sondeo" ELSE "fin"
    /\ UNCHANGED <<form_params, cargadas, form_sondeos, observado, selecciones>>
    /\ UNCHANGED fueraForm

\* lines 379-391, called at line 454: one poll of the wait; more than one
\* option ends it with True, the timeout with False
FormSondear ==
    /\ pc_form = "sondeo"
    /\ form_sondeos' = form_sondeos + 1
    /\ IF cargadas.estado
       THEN observado' = "True" /\ pc_form' = "sel_estado"
       ELSE IF form_sondeos + 1 >= MaxSondeos
            THEN observado' = "False" /\ pc_form' = "sel_estado"
            ELSE UNCHANGED <<observado, pc_form>>
    /\ UNCHANGED <<form_params, cargadas, selecciones>>
    /\ UNCHANGED fueraForm

\* line 455: the value returned by the wait is not looked at
FormSeleccionarEstado ==
    /\ pc_form = "sel_estado"
    /\ selecciones' = Append(selecciones,
                             Seleccion("estado", cargadas.estado, observado))
    /\ pc_form' = "fin"
    /\ UNCHANGED <<form_params, cargadas, form_sondeos, observado>>
    /\ UNCHANGED fueraForm

FormInactivo ==
    /\ form_params = NoLlamado
    /\ cargadas = [municipio |-> FALSE, estado |-> FALSE]
    /\ form_sondeos = 0
    /\ observado = "no"
    /\ selecciones = <<>>
    /\ pc_form = "off"

(***************************************************************************)
(* parser.py: _encontrar_tabla.  A table is given by whether it carries    *)
(* the class tbl_resulados, by the number of its <tr> elements and by how  *)
(* many of them are data rows (rows with <td> cells that are not all       *)
(* blank, the rows _extraer_filas keeps).                                  *)
(***************************************************************************)
MaxTablas == 2
MaxTr == 3

\* line 63: soup.find("table", class_=...), the first table with the class
PrimeraConClase(doc) ==
    CHOOSE i \in 1..Len(doc) :
        doc[i].marca /\ \A j \in 1..(i - 1) : ~doc[j].marca

\* line 71: max(tablas, key=len(find_all("tr"))), the first of the tables
\* with the greatest number of <tr>
tabla_mayor(doc) ==
    CHOOSE i \in 1..Len(doc) :
        /\ \A j \in 1..Len(doc) : doc[j].trs <= doc[i].trs
        /\ \A j \in 1..(i - 1) : doc[j].trs < doc[i].trs

\* mutant: the class is not looked for
_encontrar_tabla_sin_clase(doc) ==
    IF doc /= <<>> /\ doc[tabla_mayor(doc)].trs > 1 THEN tabla_mayor(doc)
    ELSE IF doc /= <<>> THEN 1
    ELSE 0

\* lines 60-85; the result is the position of the table, 0 for None
_encontrar_tabla(doc) ==
    IF \E i \in 1..Len(doc) : doc[i].marca THEN PrimeraConClase(doc)
    ELSE IF doc /= <<>> /\ doc[tabla_mayor(doc)].trs > 1 THEN tabla_mayor(doc)
    ELSE IF doc /= <<>> THEN 1
    ELSE 0

EncontrarTabla ==
    /\ pc_tab = "ini"
    /\ tabla_elegida' = _encontrar_tabla(documento)
    /\ pc_tab' = "fin"
    /\ UNCHANGED documento
    /\ UNCHANGED fueraTab

TablasPosibles ==
    {t \in [marca : BOOLEAN, trs : 0..MaxTr, datos : 0..MaxTr] :
        t.datos <= t.trs}

TabInactivo ==
    /\ documento = <<>>
    /\ tabla_elegida = 0
    /\ pc_tab = "off"

(***************************************************************************)
(* parser.py: _extraer_urls_detalle_html and the rows and url_detalle      *)
(* column of parsear_pagina.  A <tr> is given by the kind of its cells (no *)
(* <td>, <td> cells that are all blank, or <td> cells with text) and by    *)
(* the href of its links in document order.                                *)
(***************************************************************************)
MaxFilasTabla == 2
MaxEnlaces == 2

\* sub in s
ContieneSub(s, sub) ==
    \E i \in 1..(Len(s) - Len(sub) + 1) : SubSeq(s, i, i + Len(sub) - 1) = sub

\* line 192
Coincide(href) ==
    \/ ContieneSub(href, <<"d", "e", "t", "a", "l", "l", "e",
                           "P", "r", "o", "c", "e", "s", "o">>)
    \/ ContieneSub(Lower(href), <<"d", "e", "t", "a", "l", "l", "e">>)

\* line 193: urljoin(SECOP_BASE_URL, href) for a relative href
Urljoin(href) == [clase |-> "url", base |-> "SECOP_BASE_URL", href |-> href]

\* lines 190-195: the first link of the row that matches, or None
PrimerEnlace(tr) ==
    IF \E i \in 1..Len(tr.enlaces) : Coincide(tr.enlaces[i])
    THEN Urljoin(tr.enlaces[CHOOSE i \in 1..Len(tr.enlaces) :
                                /\ Coincide(tr.enlaces[i])
                                /\ \A j \in 1..(i - 1) : ~Coincide(tr.enlaces[j])])
    ELSE NULL

RECURSIVE ConTd(_, _)
\* the positions, up to n, of the <tr> that have <td> cells
ConTd(t, n) ==
    IF n = 0 THEN <<>>
    ELSE IF t[n].celdas /= "sin_td" THEN Append(ConTd(t, n - 1), n)
    ELSE ConTd(t, n - 1)

\* lines 182-199: one entry for every <tr> with <td> cells
_extraer_urls_detalle_html(t) ==
    LET con == ConTd(t, Len(t))
    IN  [k \in 1..Len(con) |-> PrimerEnlace(t[con[k]])]

\* lines 151-162: the positions of the rows _extraer_filas keeps
FilasRetenidas(t) ==
    SelectSeq(ConTd(t, Len(t)), LAMBDA k : t[k].celdas = "datos")

\* lines 230-236 and 266-279: no row kept raises; url_detalle is the list of
\* URLs when it is as long as the frame, else None in every row
UrlParsear ==
    /\ pc_url = "ini"
    /\ LET filas == FilasRetenidas(tabla_html)
           urls_fila == _extraer_urls_detalle_html(tabla_html)
       IN  url_df' =
               IF filas = <<>> THEN SecopParsingError
               ELSE [clase |-> "DataFrame",
                     filas |->
                        [k \in 1..Len(filas) |->
                            [tr |-> filas[k],
                             url_detalle |->
                                IF urls_fila /= <<>> /\ Len(urls_fila) = Len(filas)
                                THEN urls_fila[k] ELSE NULL]]]
    /\ pc_url' = "fin"
    /\ UNCHANGED tabla_html
    /\ UNCHANGED fueraUrl

Hrefs ==
    { <<"d", "e", "t", "a", "l", "l", "e", "P", "r", "o", "c", "e", "s", "o">>,
      <<"D", "e", "t", "a", "l", "l", "e", "2">>,
      <<"o", "t", "r", "o">> }

\* a header row has no links of interest; the other rows have up to
\* MaxEnlaces links
FilasHtml ==
    {[celdas |-> "sin_td", enlaces |-> <<>>]} \cup
    UNION {[celdas : {"vacia", "datos"}, enlaces : [1..n -> Hrefs]] :
              n \in 0..MaxEnlaces}

UrlInactivo ==
    /\ tabla_html = <<>>
    /\ url_df = NoLlamado
    /\ pc_url = "off"

UnidadesInactivas == ParInactivo /\ WhereInactivo /\ CapInactivo /\ VerInactivo /\ ConInactivo /\ MasInactivo /\ FormInactivo /\ TabInactivo /\ UrlInactivo

(***************************************************************************)
(* Specifications.                                                         *)
(***************************************************************************)
InitMoneda ==
    /\ valor \in EntradasMoneda
    /\ res_moneda = NoLlamado
    /\ pc_moneda = "ini"
    /\ LimpiarInactivo
    /\ HistInactivo
    /\ OrqInactivo
    /\ UnidadesInactivas

NextMoneda == ConvertirMoneda

SpecMoneda == InitMoneda /\ [][NextMoneda]_vars

InitLimpiar ==
    /\ EsFrameCrudo(df_paso)
    /\ df_norm = NoLlamado
    /\ df_sinvacias = NoLlamado
    /\ pc_limpiar = "ini"
    /\ MonedaInactiva
    /\ HistInactivo
    /\ OrqInactivo
    /\ UnidadesInactivas

NextLimpiar ==
    \/ Normalizar
    \/ EliminarVacias
    \/ Renombrar
    \/ ConvertirMonetarias
    \/ ConvertirFechas

SpecLimpiar == InitLimpiar /\ [][NextLimpiar]_vars

InitHist ==
    /\ sufijo \in {"csv", "parquet"}
    /\ archivo \in ArchivosIniciales(sufijo)
    /\ archivo_previo = archivo
    /\ nuevos \in LotesNuevos
    /\ historica = NoLlamado
    /\ combinado = NoLlamado
    /\ pendientes = <<>>
    /\ pc_hist = "ini"
    /\ MonedaInactiva
    /\ LimpiarInactivo
    /\ OrqInactivo
    /\ UnidadesInactivas

NextHist ==
    \/ HistCargar
    \/ HistCombinar
    \/ HistAbrir
    \/ HistEscribirCabecera
    \/ HistEscribirFila
    \/ HistCerrar
    \/ HistInterrumpir

SpecHist == InitHist /\ [][NextHist]_vars

\* a run of one of the three entry points: search mode, detail mode, or a
\* direct call of ejecutar_scraping with or without a driver of the caller
InitOrq ==
    /\ modo \in {"busqueda", "detalle", "scraping"}
    /\ pc = IF modo = "busqueda" THEN "crear"
            ELSE IF modo = "detalle" THEN "validar" ELSE "llamada"
    /\ driver_propio \in (IF modo = "scraping" THEN BOOLEAN ELSE {FALSE})
    /\ cerrar_al_final \in (IF modo = "scraping" THEN BOOLEAN ELSE {FALSE})
    /\ max_pages \in (IF modo = "detalle" THEN {0} ELSE 0..MaxPaginas)
    /\ args_historica \in (IF modo = "scraping" THEN {FALSE} ELSE BOOLEAN)
    /\ driver = IF modo = "scraping" /\ ~driver_propio THEN "abierto" ELSE "ninguno"
    /\ pc_scr = IF modo = "scraping"
                THEN (IF driver_propio THEN "crear" ELSE "rellenar")
                ELSE "off"
    /\ paginas_html = <<>>
    /\ df_crudo = NULL
    /\ df_limpio = NULL
    /\ df_api = NULL
    /\ df_detalles = NULL
    /\ exc_selenium = "sin_enlazar"
    /\ llamadas_api = 0
    /\ salida = NoExiste
    /\ codigo = "ninguno"
    /\ ret = "ninguno"
    /\ reportes = {}
    /\ huerfana = FALSE
    /\ creadas = 0
    /\ cerrar_llamadas = 0
    /\ pagina_actual = 1
    /\ intento = 1
    /\ todas_html = <<>>
    /\ exc_pendiente = FALSE
    /\ captcha_vencido = "no"
    /\ esperas = <<>>
    /\ posicion = 1
    /\ capturadas_en = <<>>
    /\ hay_siguiente = FALSE
    /\ sufijo = "csv"
    /\ archivo \in (IF args_historica THEN ArchivosOrq ELSE {NoExiste})
    /\ archivo_previo = archivo
    /\ nuevos = NoLlamado
    /\ historica = NoLlamado
    /\ combinado = NoLlamado
    /\ pendientes = <<>>
    /\ pc_hist = "off"
    /\ MonedaInactiva
    /\ LimpiarInactivo
    /\ UnidadesInactivas

NextOrq ==
    \/ ScrCrearDriver
    \/ ScrRellenar
    \/ ScrEnviar
    \/ ScrIframe
    \/ ScrVerificar
    \/ ScrCapturar
    \/ ScrNavegar
    \/ ScrCaptcha
    \/ ScrUrls
    \/ ScrFinally
    \/ ScrTerminar
    \/ BusCrearDriver
    \/ BusRecibirScraping
    \/ BusParsear
    \/ BusLimpiar
    \/ BusFinally
    \/ BusExceptSelenium
    \/ BusSalirExcept
    \/ BusConsultarApi
    \/ BusLimpiarApi
    \/ BusExceptApi
    \/ BusExportar
    \/ BusTrasHistorica
    \/ DetValidar
    \/ DetCrearDriver
    \/ DetExtraer
    \/ DetLimpiar
    \/ DetExportar
    \/ DetTrasHistorica
    \/ DetFinally
    \/ HistCargar
    \/ HistCombinar
    \/ HistAbrir
    \/ HistEscribirCabecera
    \/ HistEscribirFila
    \/ HistCerrar
    \/ HistInterrumpir

SpecOrq == InitOrq /\ [][NextOrq]_vars

\* a call of parsear_todas_paginas on a list of at most MaxPaginas pages
InitPar ==
    /\ \E k \in 0..MaxPaginas : par_html \in [1..k -> PaginasParser]
    /\ par_idx = 1
    /\ dataframes = <<>>
    /\ errores = 0
    /\ df_consolidado = NoLlamado
    /\ pc_par = "ini"
    /\ WhereInactivo
    /\ CapInactivo
    /\ VerInactivo
    /\ ConInactivo
    /\ MasInactivo
    /\ FormInactivo
    /\ TabInactivo
    /\ UrlInactivo
    /\ MonedaInactiva
    /\ LimpiarInactivo
    /\ HistInactivo
    /\ OrqInactivo

NextPar ==
    \/ ParInicio
    \/ ParPagina
    \/ ParConsolidar

SpecPar == InitPar /\ [][NextPar]_vars

InitWhere ==
    /\ args_where \in ArgsWhere
    /\ where = NoLlamado
    /\ pc_where = "ini"
    /\ ParInactivo
    /\ CapInactivo
    /\ VerInactivo
    /\ ConInactivo
    /\ MasInactivo
    /\ FormInactivo
    /\ TabInactivo
    /\ UrlInactivo
    /\ MonedaInactiva
    /\ LimpiarInactivo
    /\ HistInactivo
    /\ OrqInactivo

NextWhere == ConstruirWhere

SpecWhere == InitWhere /\ [][NextWhere]_vars

InitCap ==
    /\ cap_timeout \in 0..MaxTimeout
    /\ reloj = 0
    /\ inicio = 0
    /\ deteccion = "ninguna"
    /\ sondeos = 0
    /\ dormido = 0
    /\ pc_cap = "ini"
    /\ ParInactivo
    /\ WhereInactivo
    /\ VerInactivo
    /\ ConInactivo
    /\ MasInactivo
    /\ FormInactivo
    /\ TabInactivo
    /\ UrlInactivo
    /\ MonedaInactiva
    /\ LimpiarInactivo
    /\ HistInactivo
    /\ OrqInactivo

NextCap ==
    \/ CapDetectar
    \/ CapVentana
    \/ CapSondear

\* the function's statements are executed one after another: a step that
\* can be taken is taken
SpecCap == InitCap /\ [][NextCap]_vars /\ WF_vars(NextCap)

InitVer ==
    /\ \/ ver_indicador = SinIndicador
       \/ \E n \in 0..MaxLenTotal : \E t \in [1..n -> AlfabetoTotal] :
             ver_indicador = Indicador(t)
    /\ ver_tabla \in BOOLEAN
    /\ ver_tabla_generica \in BOOLEAN
    /\ ver_frases \in SUBSET mensajes_vacios
    /\ ver_resultado = NoLlamado
    /\ pc_ver = "ini"
    /\ ParInactivo
    /\ WhereInactivo
    /\ CapInactivo
    /\ ConInactivo
    /\ MasInactivo
    /\ FormInactivo
    /\ TabInactivo
    /\ UrlInactivo
    /\ MonedaInactiva
    /\ LimpiarInactivo
    /\ HistInactivo
    /\ OrqInactivo

NextVer == VerificarResultados

SpecVer == InitVer /\ [][NextVer]_vars

InitCon ==
    /\ con_args \in ArgsCon
    /\ max_registros \in MaximosEntrada
    /\ con_where = <<>>
    /\ where_conteo = <<>>
    /\ con_total = 0
    /\ registros_a_obtener = 0
    /\ offset = 0
    /\ all_records = 0
    /\ peticiones = <<>>
    /\ longitudes = <<>>
    /\ con_ret = NoLlamado
    /\ pc_con = "where"
    /\ ParInactivo
    /\ WhereInactivo
    /\ CapInactivo
    /\ VerInactivo
    /\ MasInactivo
    /\ FormInactivo
    /\ TabInactivo
    /\ UrlInactivo
    /\ MonedaInactiva
    /\ LimpiarInactivo
    /\ HistInactivo
    /\ OrqInactivo

NextCon ==
    \/ ConWhere
    \/ ConContar
    \/ ConPagina
    \/ ConRetornar

\* the function is sequential code: a step that can be taken is taken
SpecCon == InitCon /\ [][NextCon]_vars /\ WF_vars(NextCon)

InitMas ==
    /\ \E n \in 0..MaxUrls : urls \in [1..n -> UrlsDeDetalle]
    /\ max_errores \in 1..MaxErrores
    /\ mas_idx = 0
    /\ exitos = <<>>
    /\ resultados = <<>>
    /\ errores_consecutivos = 0
    /\ mas_ret = NoLlamado
    /\ pc_mas = "bucle"
    /\ ParInactivo
    /\ WhereInactivo
    /\ CapInactivo
    /\ VerInactivo
    /\ ConInactivo
    /\ FormInactivo
    /\ TabInactivo
    /\ UrlInactivo
    /\ MonedaInactiva
    /\ LimpiarInactivo
    /\ HistInactivo
    /\ OrqInactivo

NextMas ==
    \/ MasVisitar
    \/ MasRetornar

SpecMas == InitMas /\ [][NextMas]_vars

InitForm ==
    /\ form_params \in [departamento : BOOLEAN, municipio : BOOLEAN,
                        estado : BOOLEAN]
    /\ cargadas \in [municipio : {FALSE}, estado : BOOLEAN]
    /\ form_sondeos = 0
    /\ observado = "no"
    /\ selecciones = <<>>
    /\ pc_form = "departamento"
    /\ ParInactivo
    /\ WhereInactivo
    /\ CapInactivo
    /\ VerInactivo
    /\ ConInactivo
    /\ MasInactivo
    /\ TabInactivo
    /\ UrlInactivo
    /\ MonedaInactiva
    /\ LimpiarInactivo
    /\ HistInactivo
    /\ OrqInactivo

NextForm ==
    \/ AjaxCargar
    \/ FormDepartamento
    \/ FormDormir
    \/ FormSeleccionarMunicipio
    \/ FormEstado
    \/ FormSondear
    \/ FormSeleccionarEstado

SpecForm == InitForm /\ [][NextForm]_vars

InitTab ==
    /\ \E n \in 0..MaxTablas : documento \in [1..n -> TablasPosibles]
    /\ tabla_elegida = 0
    /\ pc_tab = "ini"
    /\ ParInactivo
    /\ WhereInactivo
    /\ CapInactivo
    /\ VerInactivo
    /\ ConInactivo
    /\ MasInactivo
    /\ FormInactivo
    /\ UrlInactivo
    /\ MonedaInactiva
    /\ LimpiarInactivo
    /\ HistInactivo
    /\ OrqInactivo

NextTab == EncontrarTabla

SpecTab == InitTab /\ [][NextTab]_vars

InitUrl ==
    /\ \E n \in 0..MaxFilasTabla : tabla_html \in [1..n -> FilasHtml]
    /\ url_df = NoLlamado
    /\ pc_url = "ini"
    /\ ParInactivo
    /\ WhereInactivo
    /\ CapInactivo
    /\ VerInactivo
    /\ ConInactivo
    /\ MasInactivo
    /\ FormInactivo
    /\ TabInactivo
    /\ MonedaInactiva
    /\ LimpiarInactivo
    /\ HistInactivo
    /\ OrqInactivo

NextUrl == UrlParsear

SpecUrl == InitUrl /\ [][NextUrl]_vars

(***************************************************************************)
(* C8.  _convertir_moneda_colombiana on dot-grouped amounts, on the        *)
(* decimal-comma example, and on blank or non-numeric strings.             *)
(***************************************************************************)
\* "$" then one to three digits, then any number of ".ddd" groups
FormaMiles(v) ==
    /\ v /= <<>> /\ Head(v) = "$"
    /\ LET g == Split(Tail(v), ".")
       IN  /\ Len(g[1]) \in 1..3 /\ SoloDigitos(g[1])
           /\ \A i \in 2..Len(g) : Len(g[i]) = 3 /\ SoloDigitos(g[i])

\* the digits of v, in order
SoloLosDigitos(v) == SelectSeq(v, LAMBDA c : c \in Digitos)

\* no digit anywhere (this covers the empty and the blank string)
NoNumerica(v) == SoloLosDigitos(v) = <<>>

\* C8 (dot-grouped part): "$d.ddd...ddd" gives the integer whose digits are
\* those of the string with the dots deleted.
C8_MilesEntero ==
    (pc_moneda = "fin" /\ FormaMiles(valor))
        => res_moneda = Numero(FALSE, SoloLosDigitos(valor), <<>>)

\* C8 (decimal example): "$1.234.567,89" gives 1234567.89.
C8_EjemploDecimal ==
    (pc_moneda = "fin" /\ valor = EjemploDecimal)
        => res_moneda = Numero(FALSE, <<"1", "2", "3", "4", "5", "6", "7">>,
                               <<"8", "9">>)

\* C8 as claimed: dot-grouped amounts give the integer without the dots, the
\* decimal example gives 1234567.89, and every empty, blank or non-numeric
\* string gives null.
C8_MonedaComoSeAfirma ==
    /\ C8_MilesEntero
    /\ C8_EjemploDecimal
    /\ (pc_moneda = "fin" /\ NoNumerica(valor)) => res_moneda = NULL

(***************************************************************************)
(* C9.  eliminar_filas_vacias after normalizar_strings.                    *)
(***************************************************************************)
CeldaVacia(v) == EsNulo(v) \/ (v.clase = "str" /\ Strip(v.s) = <<>>)

FilaVacia(r) == \A i \in 1..Len(r.celdas) : CeldaVacia(r.celdas[i])

\* C9 as claimed: the rows left by eliminar_filas_vacias are exactly the rows
\* of the normalised frame that have a non-blank, non-null cell in some
\* column, whatever the column's type.
C9_EliminaSoloFilasVacias ==
    pc_limpiar \in {"sin_vacias", "renombrado", "monetarias", "fin"}
        => df_sinvacias.filas
               = SelectSeq(df_norm.filas, LAMBDA r : ~FilaVacia(r))

\* The half of C9 the code does keep: every all-blank row is removed and
\* every row with a non-blank text cell is retained.
C9_SoloTexto ==
    pc_limpiar \in {"sin_vacias", "renombrado", "monetarias", "fin"}
        => /\ \A k \in 1..Len(df_sinvacias.filas) :
                  ~FilaVacia(df_sinvacias.filas[k])
           /\ LET conTexto(r) ==
                      \E i \in ColsObjeto(df_norm) : ~CeldaVacia(r.celdas[i])
              IN  SelectSeq(df_sinvacias.filas, conTexto)
                      = SelectSeq(df_norm.filas, conTexto)

(***************************************************************************)
(* C10.  Typing of money and date columns in limpiar_dataframe.            *)
(***************************************************************************)
ColsTipadas(d, nombres) == ColsCon(d, nombres)

\* C10: when limpiar_dataframe returns, it returns as many rows as
\* eliminar_filas_vacias left, in the same order; the cells outside the money
\* and date columns are those rows' cells; a money cell is a float or null and
\* a date cell a timestamp or null, and a cell with no digit in it never
\* becomes a number or a date.  No cell is typed before the empty rows are
\* eliminated.
C10_TipadoConservaFilas ==
    /\ pc_limpiar = "fin" =>
         /\ Len(df_paso.filas) = Len(df_sinvacias.filas)
         /\ \A k \in 1..Len(df_paso.filas) : \A i \in 1..Len(df_paso.cols) :
              LET antes == df_sinvacias.filas[k].celdas[i]
                  despues == df_paso.filas[k].celdas[i]
              IN  IF i \in ColsTipadas(df_paso, COLUMNAS_MONETARIAS)
                  THEN /\ despues.clase \in {"null", "num", "inf", "nan"}
                       /\ NoNumerica(Str(antes)) => despues.clase /= "num"
                  ELSE IF i \in ColsTipadas(df_paso, COLUMNAS_FECHA)
                  THEN /\ despues.clase \in {"null", "ts"}
                       /\ NoNumerica(Str(antes)) => despues = NULL
                  ELSE despues = antes
    /\ pc_limpiar \in {"ini", "normalizado"} =>
         \A k \in 1..Len(df_paso.filas) : \A i \in 1..Len(df_paso.cols) :
             df_paso.filas[k].celdas[i].clase \in {"str", "null", "num"}
             /\ (df_paso.cols[i].objeto
                    => df_paso.filas[k].celdas[i].clase \in {"str", "null"})

\* limpiar_dataframe has returned a row whose amount and whose date were both
\* text that could not be parsed, next to a row whose amount was parsed.
C10_Testigo ==
    /\ pc_limpiar = "fin"
    /\ \E k \in 1..Len(df_paso.filas) :
         \E i \in ColsTipadas(df_paso, COLUMNAS_MONETARIAS) :
         \E j \in ColsTipadas(df_paso, COLUMNAS_FECHA) :
            /\ ~CeldaVacia(df_sinvacias.filas[k].celdas[i])
            /\ df_paso.filas[k].celdas[i] = NULL
            /\ ~CeldaVacia(df_sinvacias.filas[k].celdas[j])
            /\ df_paso.filas[k].celdas[j] = NULL
    /\ \E k \in 1..Len(df_paso.filas) :
         \E i \in ColsTipadas(df_paso, COLUMNAS_MONETARIAS) :
            df_paso.filas[k].celdas[i].clase = "num"

(***************************************************************************)
(* C6.  actualizar_base_historica: the later-appended record wins.         *)
(***************************************************************************)
TieneClave(d) == IndiceDe(d.cols, columna_clave) /= 0

ClaveDeFila(d, r) ==
    IF EsNulo(CeldaDe(d, r, columna_clave)) THEN NULL
    ELSE CeldaDe(d, r, columna_clave)

Claves(d) == {ClaveDeFila(d, d.filas[k]) : k \in 1..Len(d.filas)}

FilasConClave(d, c) == {k \in 1..Len(d.filas) : ClaveDeFila(d, d.filas[k]) = c}

UltimaConClave(d, c) ==
    d.filas[CHOOSE k \in FilasConClave(d, c) : \A j \in FilasConClave(d, c) : j <= k]

\* row r of frame d carries, in the columns of frame o, the cells of row x of o
MismoRegistro(d, r, o, x) ==
    /\ r.origen = x.origen
    /\ \A i \in 1..Len(o.cols) : CeldaDe(d, r, o.cols[i].nombre) = x.celdas[i]

MergeHecho == pc_hist \in {"combinado", "abierto", "escribiendo", "fin"}

\* C6: when the store and the batch both carry the process-number column (or
\* there is no store yet), the merged store holds exactly one record per key,
\* its keys are the union of the store's and the batch's keys, and the record
\* of a key is the last record of the batch with that key if the batch has
\* one, otherwise the last record of the store with that key.
C6_UltimoAgregadoGana ==
    (/\ MergeHecho
     /\ TieneClave(nuevos)
     /\ TieneClave(historica) \/ historica = DataFrameVacio)
    => /\ Claves(combinado) = Claves(historica) \cup Claves(nuevos)
       /\ \A c \in Claves(combinado) :
             /\ Cardinality(FilasConClave(combinado, c)) = 1
             /\ LET r == UltimaConClave(combinado, c)
                IN  IF c \in Claves(nuevos)
                    THEN MismoRegistro(combinado, r, nuevos,
                                       UltimaConClave(nuevos, c))
                    ELSE MismoRegistro(combinado, r, historica,
                                       UltimaConClave(historica, c))

\* a finished merge where the batch brings two different payloads for a key
\* the store already holds, and the store holds another key the batch lacks
C6_Testigo ==
    /\ pc_hist = "fin"
    /\ TieneClave(nuevos) /\ TieneClave(historica)
    /\ \E c \in Claves(historica) \cap Claves(nuevos) :
          /\ c /= NULL
          /\ \E j, k \in FilasConClave(nuevos, c) :
                j < k /\ nuevos.filas[j] /= nuevos.filas[k]
    /\ Claves(historica) \ Claves(nuevos) /= {}

(***************************************************************************)
(* C7.  Atomicity of the store file's rewrite.                             *)
(***************************************************************************)
\* C7 as claimed: the file on disk always holds either exactly what it held
\* when actualizar_base_historica was called or, once the call has returned,
\* the complete merged store; a call that fails leaves the previous content.
C7_EscrituraAtomica ==
    archivo_previo /= NoExiste =>
        /\ \/ archivo = archivo_previo
           \/ pc_hist = "fin" /\ archivo = ArchivoDe(sufijo, combinado)
        /\ pc_hist = "excepcion" => archivo = archivo_previo

\* What the code does guarantee: nothing is written before load, concat and
\* dedup are done.
C7_SinEscrituraAntesDeCombinar ==
    pc_hist \in {"ini", "cargado", "combinado"} => archivo = archivo_previo

(***************************************************************************)
(* Search mode: what can be read off a finished run.                       *)
(***************************************************************************)
BusquedaTerminada == modo = "busqueda" /\ pc = "fin"

\* the browser path raised: the handler of lines 314-318 has run
BrowserFallo == "fallo_selenium" \in reportes

\* rows of the cleaned browser result, when the browser path completed
BrowserFilas ==
    IF df_crudo = NULL THEN 0 ELSE Len(limpiar_dataframe(df_crudo).filas)

\* consultar_desde_params raised / returned an empty frame
ApiFallo == llamadas_api > 0 /\ df_api = NULL /\ "error_api" \in reportes
ApiVacia == df_api /= NULL /\ Len(df_api.filas) = 0

(***************************************************************************)
(* C1.  In search mode the fallback query is made exactly once when the    *)
(* browser path raised or completed without cleaned rows, and never when   *)
(* it completed with at least one cleaned row; no run makes it twice.      *)
(***************************************************************************)
C1_FallbackExactamenteUnaVez ==
    /\ modo = "busqueda" => llamadas_api <= 1
    /\ BusquedaTerminada =>
          /\ BrowserFallo => llamadas_api = 1
          /\ (~BrowserFallo /\ BrowserFilas = 0) => llamadas_api = 1
          /\ (~BrowserFallo /\ BrowserFilas > 0) => llamadas_api = 0

\* a finished run whose browser path raised and whose single fallback query
\* produced the exported set
C1_Testigo ==
    /\ BusquedaTerminada
    /\ BrowserFallo
    /\ llamadas_api = 1
    /\ salida /= NoExiste
    /\ codigo = "0"

(***************************************************************************)
(* C2.  As claimed: when the browser path yielded no rows and the fallback *)
(* query raises, the run returns exit code 1 after reporting both causes   *)
(* and does not end with an unhandled exception.                           *)
(***************************************************************************)
C2_DobleFalloRetornaUno ==
    (BusquedaTerminada /\ ApiFallo) =>
        /\ codigo = "1"
        /\ "error_combinado" \in reportes

(***************************************************************************)
(* C3.  When the browser path failed or was empty and the fallback returns *)
(* an empty result, the run ends with exit code 0 after reporting that the *)
(* API has no results; nothing is exported and no combined failure is      *)
(* reported.                                                               *)
(***************************************************************************)
C3_ApiVaciaTerminaConCero ==
    (BusquedaTerminada /\ ApiVacia) =>
        /\ codigo = "0"
        /\ "sin_resultados_api" \in reportes
        /\ "error_combinado" \notin reportes
        /\ salida = NoExiste

\* C3 as claimed: that run ends as a failure with the combined report
C3_ApiVaciaEsFallo ==
    (BusquedaTerminada /\ ApiVacia) =>
        /\ codigo /= "0"
        /\ "error_combinado" \in reportes

C3_Testigo ==
    /\ BusquedaTerminada
    /\ BrowserFallo
    /\ ApiVacia
    /\ codigo = "0"

(***************************************************************************)
(* C4.  The set a search-mode run exports holds rows of one source only:   *)
(* browser rows or API rows, never both, also when the browser path had    *)
(* parsed rows before it failed.                                           *)
(***************************************************************************)
C4_UnaSolaFuente ==
    (modo = "busqueda" /\ salida /= NoExiste) =>
        /\ \A i, j \in 1..Len(salida.filas) :
              salida.filas[i].origen = salida.filas[j].origen
        /\ \A i \in 1..Len(salida.filas) :
              salida.filas[i].origen = IF llamadas_api = 0 THEN "sel" ELSE "api"

\* the browser path parsed rows, then failed; the export holds API rows
C4_Testigo ==
    /\ modo = "busqueda"
    /\ df_crudo /= NULL
    /\ BrowserFallo
    /\ salida /= NoExiste
    /\ salida.filas /= <<>>
    /\ salida.filas[1].origen = "api"

(***************************************************************************)
(* C5.  Every session crear_driver returned to the run has had             *)
(* cerrar_driver called on it when the run ends, whatever the exit path:   *)
(* in search mode, in detail mode, and in a direct call of                 *)
(* ejecutar_scraping that creates its driver and has cerrar_al_final true. *)
(***************************************************************************)
RunTerminado == pc = "fin"

C5_SesionLiberadaAlTerminar ==
    (RunTerminado /\ (modo = "scraping" => cerrar_al_final)) =>
        cerrar_llamadas = creadas

\* C5 as claimed: the same for every direct call that creates its driver
C5_SesionSiempreLiberada ==
    RunTerminado => cerrar_llamadas = creadas

\* a direct call that created its driver, was cut short by an exception of
\* one of its steps, and closed the driver on the way out
C5_Testigo ==
    /\ RunTerminado
    /\ modo = "scraping"
    /\ driver_propio
    /\ codigo = "excepcion"
    /\ creadas = 1
    /\ cerrar_llamadas = 1

(***************************************************************************)
(* C11.  parsear_todas_paginas returns no two rows with the same cells,    *)
(* and given the same parseable page twice it returns the rows it returns  *)
(* for that page given once.                                               *)
(***************************************************************************)
C11_SinFilasRepetidas ==
    pc_par = "fin" =>
        /\ \A i, j \in 1..Len(df_consolidado.filas) :
              i /= j => df_consolidado.filas[i].celdas
                            /= df_consolidado.filas[j].celdas
        /\ (Len(par_html) = 2 /\ par_html[1] = par_html[2]) =>
              df_consolidado = parsear_todas_paginas(<<par_html[1]>>)

\* the same page, with rows, was given twice and consolidated
C11_Testigo ==
    /\ pc_par = "fin"
    /\ Len(par_html) = 2
    /\ par_html[1] = par_html[2]
    /\ Len(dataframes) = 2
    /\ Len(df_consolidado.filas) < Len(dataframes[1].filas) + Len(dataframes[2].filas)

(***************************************************************************)
(* C15.  parsear_todas_paginas skips a page whose parsing raises the parse *)
(* error and still returns every row of every other page; it raises the    *)
(* empty-result error exactly when no page of the list yields rows, the    *)
(* empty list included.                                                    *)
(***************************************************************************)
PaginaConFilas(p) == ~EsError(parsear_pagina(p))

C15_OmitePaginasConError ==
    /\ pc_par \in {"fin", "excepcion"} =>
          (pc_par = "excepcion"
              <=> \A k \in 1..Len(par_html) : ~PaginaConFilas(par_html[k]))
    /\ pc_par = "fin" =>
          /\ errores = Cardinality({k \in 1..Len(par_html) :
                                       ~PaginaConFilas(par_html[k])})
          /\ \A k \in 1..Len(par_html) :
                PaginaConFilas(par_html[k]) =>
                    LET d == parsear_pagina(par_html[k])
                    IN  \A n \in 1..Len(d.filas) :
                            \E m \in 1..Len(df_consolidado.filas) :
                                \A i \in 1..Len(d.cols) :
                                    CeldaDe(df_consolidado,
                                            df_consolidado.filas[m],
                                            d.cols[i].nombre)
                                        = d.filas[n].celdas[i]

\* a list with a page that failed to parse and a page that parsed
C15_Testigo ==
    /\ pc_par = "fin"
    /\ errores >= 1
    /\ Len(df_consolidado.filas) >= 1

(***************************************************************************)
(* C12.  _construir_where replaces a department or modality code of the    *)
(* fixed tables by its name (668000 by Santander, 13 by Mínima cuantía)    *)
(* and passes any other value through; a status that is "celebrado" in any *)
(* letter case gives an IN condition with the six equivalent statuses, any *)
(* other status an equality on the status as written; the conditions       *)
(* present are joined with AND.                                            *)
(***************************************************************************)
CondicionesDe(columna) ==
    {i \in 1..Len(where) :
        where[i].clase = "condicion" /\ where[i].columna = columna}

DepartamentoEsperado(d) ==
    CASE d = "668000" -> "Santander" [] d = "5000" -> "Antioquia" [] OTHER -> d

ModalidadEsperada(m) == IF m = "13" THEN "Mínima cuantía" ELSE m

CelebradoEnAlgunaCaja ==
    { <<"c", "e", "l", "e", "b", "r", "a", "d", "o">>,
      <<"C", "e", "l", "e", "b", "r", "a", "d", "o">>,
      <<"C", "E", "L", "E", "B", "R", "A", "D", "O">>,
      <<"c", "E", "L", "E", "B", "R", "A", "D", "o">> }

FechaPresente(f) == f /= <<>> /\ Len(Split(f, "/")) = 3

ModalidadPresente(m) == IF m.lista THEN m.v /= <<>> ELSE m.v /= ""

CondicionesPresentes ==
      (IF args_where.departamento /= "" THEN 1 ELSE 0)
    + (IF ModalidadPresente(args_where.modalidad) THEN 1 ELSE 0)
    + (IF args_where.estado /= <<>> THEN 1 ELSE 0)
    + (IF args_where.palabra_clave /= "" THEN 1 ELSE 0)
    + (IF FechaPresente(args_where.fecha_inicio) THEN 1 ELSE 0)
    + (IF FechaPresente(args_where.fecha_fin) THEN 1 ELSE 0)

ColumnasCanonicas == {COLUMNAS_RESULTADO[i] : i \in 1..Len(COLUMNAS_RESULTADO)}

\* the amounts of either source
ColumnasDeDinero == COLUMNAS_MONETARIAS \cup {"valor_del_contrato", "valor_pagado"}

C13_EsquemaCanonicoEnAmbasFuentes ==
    (modo = "busqueda" /\ salida /= NoExiste) =>
        /\ \A i \in 1..Len(salida.cols) :
              salida.cols[i].nombre \in ColumnasCanonicas
        /\ \A k \in 1..Len(salida.filas) :
              \A i \in ColsCon(salida, ColumnasDeDinero \cup COLUMNAS_FECHA) :
                  salida.filas[k].celdas[i].clase /= "str"

C16_TopeYOrdenDeCaptura ==
    modo \in {"busqueda", "scraping"} =>
        /\ Len(todas_html) <= max_pages
        /\ Len(paginas_html) <= max_pages
        /\ pc_scr \in {"recopilar", "navegar", "captcha", "urls"} =>
              /\ Len(capturadas_en) = Len(todas_html)
              /\ \A k \in 1..Len(capturadas_en) : capturadas_en[k] = k
        /\ posicion <= Len(todas_html) + 1
        /\ pc_scr = "navegar" => Len(todas_html) = posicion

\* the "next" link never went away: the loop ended on the page limit, with
\* the browser already on the page after the last one read
C16_Testigo ==
    /\ modo = "scraping"
    /\ pc_scr = "urls"
    /\ hay_siguiente
    /\ max_pages >= 2
    /\ Len(todas_html) = max_pages
    /\ capturadas_en[max_pages] = max_pages
    /\ posicion = max_pages + 1
    /\ captcha_vencido = "no"

(***************************************************************************)
(* C17.  For one page transition recopilar_html_paginas makes at most      *)
(* MAX_RETRIES navigation attempts and waits RETRY_BACKOFF^attempt after   *)
(* each failed one; when all fail it stops on the current page and returns *)
(* the pages read so far, that page included, without raising; when there  *)
(* is no "next" link it stops with no navigation attempt and no error.     *)
(***************************************************************************)
EnSalidaDeRecopilar == pc_scr = "urls"

PasoScr(p) ==
    CASE p = "crear" -> 0
      [] p = "rellenar" -> 1
      [] p = "enviar" -> 2
      [] p = "iframe" -> 3
      [] p = "verificar" -> 4
      [] p \in {"recopilar", "navegar", "captcha"} -> 5
      [] p = "urls" -> 6
      [] p = "finally" -> 7
      [] p = "retorno" -> 8
      [] OTHER -> 9

C19_OrdenYFalloAbsorbente ==
    [][ /\ (pc_scr' /= pc_scr /\ pc_scr /= "off") =>
              \/ PasoScr(pc_scr') = PasoScr(pc_scr) + 1 /\ ~exc_pendiente'
              \/ PasoScr(pc_scr') = 5 /\ PasoScr(pc_scr) = 5
              \/ /\ exc_pendiente'
                 /\ pc_scr' = "finally"
                 /\ PasoScr(pc_scr) \in 1..5
              \/ /\ exc_pendiente'
                 /\ pc_scr' = "excepcion"
                 /\ pc_scr \in {"crear", "finally"}
        /\ (pc_scr = "finally" /\ exc_pendiente) =>
              pc_scr' \in {"finally", "excepcion"}
        /\ pc_scr = "excepcion" => pc_scr' = "excepcion"
        /\ pc_scr = "retorno" => pc_scr' = "retorno"
        /\ pc_scr' = "excepcion" => paginas_html' = <<>>
      ]_vars

\* a direct call that failed during the pagination, after reading a page,
\* has ended with the exception and handed nothing to its caller
C19_Testigo ==
    /\ modo = "scraping"
    /\ pc = "fin"
    /\ pc_scr = "excepcion"
    /\ codigo = "excepcion"
    /\ todas_html /= <<>>
    /\ paginas_html = <<>>

(***************************************************************************)
(* C18.  manejar_recaptcha always terminates.  With no indicator at the    *)
(* first detection it returns without sleeping.  Otherwise every poll      *)
(* sleeps the same interval; it returns only after a detection that found  *)
(* no indicator, and it raises SecopRecaptchaError only when the window    *)
(* has elapsed and the last detection found an indicator.                  *)
(***************************************************************************)
CapTerminado == pc_cap \in {"retorno", "excepcion", "otra_excepcion"}

C18_Seguridad ==
    /\ dormido = 2 * sondeos
    /\ pc_cap = "retorno" => deteccion = "ausente"
    /\ (pc_cap = "retorno" /\ sondeos = 0) => reloj = 0
    /\ pc_cap = "excepcion" =>
          /\ deteccion = "presente"
          /\ reloj - inicio >= cap_timeout
    /\ (pc_cap = "dormir" \/ (CapTerminado /\ sondeos > 0)) =>
          \* the poll was started inside the window
          reloj - inicio < cap_timeout + INTERVALO_SONDEO + MaxDemora
    /\ deteccion = "presente" => pc_cap \in {"bucle", "dormir", "excepcion"}

C18_TerminaYNoRetornaConIndicador == []C18_Seguridad /\ <>CapTerminado

\* the indicator was there at the first detection and at every poll until
\* the window elapsed
C18_Testigo ==
    /\ pc_cap = "excepcion"
    /\ sondeos >= 2
    /\ deteccion = "presente"

(***************************************************************************)
(* C20.  verificar_resultados raises SecopEmptyTableError exactly when the *)
(* total indicator is there and shows the count zero, or when it is not    *)
(* there, no table is there and the page text contains a phrase of         *)
(* mensajes_vacios.  With the indicator showing a count other than zero it *)
(* returns that count; with no indicator and a table it returns.           *)
(***************************************************************************)
\* the count the indicator shows: its digits, with "." or "," between them
\* and blanks around them; -1 when the text shows no number
ConteoMostrado(t) ==
    LET digitos == SelectSeq(t, LAMBDA c : c \in Digitos)
        resto == SelectSeq(Strip(t), LAMBDA c : c \notin Digitos \cup {".", ","})
    IN  IF digitos /= <<>> /\ resto = <<>> THEN ANatural(digitos) ELSE -1

C20_VacioSoloConCeroOFrase ==
    pc_ver = "fin" =>
        /\ ver_resultado = SecopEmptyTableError <=>
              \/ ver_indicador.presente
                 /\ ConteoMostrado(ver_indicador.texto) = 0
              \/ /\ ~ver_indicador.presente
                 /\ ~ver_tabla
                 /\ ~ver_tabla_generica
                 /\ ver_frases /= {}
        /\ (ver_indicador.presente
            /\ ConteoMostrado(ver_indicador.texto) > 0) =>
              ver_resultado = Retorno(ConteoMostrado(ver_indicador.texto))
        /\ (~ver_indicador.presente /\ (ver_tabla \/ ver_tabla_generica)) =>
              ver_resultado = Retorno(0)

C29_NingunRegistroPerdido ==
    MergeHecho =>
        LET c == PdConcat(historica, nuevos)
            n == Len(c.filas)
            clave(k) == CeldaDe(c, c.filas[k], columna_clave)
        IN  \A k \in 1..n :
                \/ \E m \in 1..Len(combinado.filas) :
                      combinado.filas[m] = c.filas[k]
                \/ /\ ~EsNulo(clave(k))
                   /\ \E j \in (k + 1)..n :
                         ~EsNulo(clave(j)) /\ clave(j) = clave(k)

(***************************************************************************)
(* C24.  _convertir_moneda_colombiana on numeric strings with a comma.     *)
(***************************************************************************)
\* position of the last comma of v (0 when there is none)
UltimaComa(v) ==
    IF \E i \in 1..Len(v) : v[i] = ","
    THEN CHOOSE i \in 1..Len(v) :
             v[i] = "," /\ \A j \in (i + 1)..Len(v) : v[j] /= ","
    ELSE 0

\* digits, dots and commas only, starting with a digit, with at least one
\* comma and one or more digits (and nothing else) after the last comma
NumericaConComa(v) ==
    /\ v /= <<>> /\ Head(v) \in Digitos
    /\ \A i \in 1..Len(v) : v[i] \in Digitos \cup {".", ","}
    /\ UltimaComa(v) \in 1..(Len(v) - 1)
    /\ \A i \in (UltimaComa(v) + 1)..Len(v) : v[i] \in Digitos

NumeroDeComas(v) == Len(SelectSeq(v, LAMBDA c : c = ","))

\* C24 restricted to one comma: the digits before the comma (dots removed)
\* are the integer part and the digits after it the fractional part.
C24_UnaComa ==
    (pc_moneda = "fin" /\ NumericaConComa(valor) /\ NumeroDeComas(valor) = 1)
        => res_moneda = Numero(FALSE,
                               SoloLosDigitos(SubSeq(valor, 1, UltimaComa(valor) - 1)),
                               SubSeq(valor, UltimaComa(valor) + 1, Len(valor)))

\* C24 as claimed: for every numeric string with at least one comma the
\* integer part is what precedes the LAST comma, without its separators, and
\* the fractional part is the digits after the last comma.
C24_ParteTrasUltimaComa ==
    (pc_moneda = "fin" /\ NumericaConComa(valor))
        => res_moneda = Numero(FALSE,
                               SoloLosDigitos(SubSeq(valor, 1, UltimaComa(valor) - 1)),
                               SubSeq(valor, UltimaComa(valor) + 1, Len(valor)))

\* the two-comma example is converted from its first two pieces only
C24_DosComasTruncado ==
    (pc_moneda = "fin" /\ valor = EjemploDosComas)
        => res_moneda = Numero(FALSE, <<"1">>, <<"2", "3", "4">>)

(***************************************************************************)
(* C25.  _construir_where on the date-from and date-to strings.            *)
(***************************************************************************)
\* a day/month/year date: one or two digits, one or two digits, four digits,
\* naming a day that exists
FechaBienFormada(f) ==
    LET p == Split(f, "/")
    IN  /\ Len(p) = 3
        /\ \A i \in 1..3 : SoloDigitos(p[i])
        /\ Len(p[1]) \in 1..2 /\ Len(p[2]) \in 1..2 /\ Len(p[3]) = 4
        /\ ANatural(p[2]) \in 1..12
        /\ ANatural(p[1]) \in 1..DiasDelMes(ANatural(p[3]), ANatural(p[2]))

\* the conditions on the start date with the given comparison
CondicionesDeFecha(operador) ==
    {i \in CondicionesDe("fecha_de_inicio_del_contrato") :
        where[i].operador = operador}

\* yyyy-MM-dd<hora> of a day/month/year date
IsoDe(f, hora) ==
    LET p == Split(f, "/") IN <<p[3], "-", p[2], "-", p[1], hora>>

\* a well-formed date gives exactly one bound, at the start or end of day
FechaDaLimite(f, operador, hora) ==
    FechaBienFormada(f) =>
        /\ Cardinality(CondicionesDeFecha(operador)) = 1
        /\ \A i \in CondicionesDeFecha(operador) :
              where[i].valores = IsoDe(f, hora)

\* C25 (well-formed part): a well-formed date-from gives the bound
\* >= yyyy-MM-ddT00:00:00 and a well-formed date-to <= yyyy-MM-ddT23:59:59.
C25_BienFormadaDaLimite ==
    pc_where = "fin" =>
        /\ FechaDaLimite(args_where.fecha_inicio, ">=", "T00:00:00")
        /\ FechaDaLimite(args_where.fecha_fin, "<=", "T23:59:59")

\* C25 (what the code drops): a date that does not split into three parts
\* gives no date condition.
C25_SinTresPartesSeOmite ==
    pc_where = "fin" =>
        /\ ~FechaPresente(args_where.fecha_inicio)
              => CondicionesDeFecha(">=") = {}
        /\ ~FechaPresente(args_where.fecha_fin)
              => CondicionesDeFecha("<=") = {}

\* C25 as claimed: a well-formed date gives its bound, and every date string
\* that is not a well-formed day/month/year date gives no date condition.
C25_MalFormadaSeOmite ==
    pc_where = "fin" =>
        /\ C25_BienFormadaDaLimite
        /\ ~FechaBienFormada(args_where.fecha_inicio)
              => CondicionesDeFecha(">=") = {}
        /\ ~FechaBienFormada(args_where.fecha_fin)
              => CondicionesDeFecha("<=") = {}

(***************************************************************************)
(* C26.  The paging loop of consultar_contratos, when no page has more     *)
(* rows than its query asked for: it terminates; every page query asks for *)
(* at most API_PAGE_SIZE rows, at an offset that is the number of rows     *)
(* accumulated so far and greater than the previous offset; no query       *)
(* follows a page that was short or empty, or that brought the accumulated *)
(* count to min(total, max_registros); the rows returned do not exceed     *)
(* max_registros; a count of zero leads to no page query.                  *)
(***************************************************************************)
RECURSIVE Suma(_, _)
\* the sum of the first n elements of s
Suma(s, n) == IF n = 0 THEN 0 ELSE Suma(s, n - 1) + s[n]

ServidorRespetaLimite ==
    \A i \in 1..Len(longitudes) : longitudes[i] <= peticiones[i].limit

ConTerminado == pc_con \in {"fin", "excepcion"}

C26_Seguridad ==
    ServidorRespetaLimite =>
        /\ \A i \in 1..Len(peticiones) :
              /\ peticiones[i].limit <= API_PAGE_SIZE
              /\ peticiones[i].offset = Suma(longitudes, i - 1)
              /\ i > 1 => peticiones[i].offset > peticiones[i - 1].offset
        /\ \A i \in 1..(Len(peticiones) - 1) :
              /\ longitudes[i] = peticiones[i].limit
              /\ Suma(longitudes, i) < Min(con_total, max_registros)
        /\ all_records = Suma(longitudes, Len(longitudes))
        /\ all_records <= max_registros
        /\ pc_con = "fin" => con_ret = DataFrameDe(all_records)
        /\ con_total = 0 => peticiones = <<>>

C26_PaginacionAcotada == []C26_Seguridad /\ <>ConTerminado

\* two full pages and a third, short one were fetched and returned
C26_Testigo ==
    /\ pc_con = "fin"
    /\ ServidorRespetaLimite
    /\ Len(peticiones) = 3
    /\ peticiones[3].offset = 2 * API_PAGE_SIZE
    /\ peticiones[3].limit = 1
    /\ con_ret = DataFrameDe(max_registros)

\* the count was zero and the function returned without a page query
C26_TestigoConteoCero ==
    pc_con = "fin" /\ con_total = 0 /\ peticiones = <<>> /\ con_ret = DataFrameDe(0)

(***************************************************************************)
(* C28.  The count query and the page queries of consultar_contratos use   *)
(* the same filter predicate, whatever the filters, dates included.        *)
(***************************************************************************)
C28_MismoPredicado ==
    (pc_con \notin {"where", "contar"}) =>
        /\ where_conteo = con_where
        /\ \A i \in 1..Len(peticiones) : peticiones[i].where = where_conteo

\* C28 without dates: the two predicates are the same when neither date is
\* given.
C28_MismoPredicadoSinFechas ==
    (/\ pc_con \notin {"where", "contar"}
     /\ con_args.fecha_inicio = <<>> /\ con_args.fecha_fin = <<>>) =>
        /\ where_conteo = con_where
        /\ \A i \in 1..Len(peticiones) : peticiones[i].where = where_conteo

(***************************************************************************)
(* C27.  extraer_detalles_masivo visits the URLs one after another in the  *)
(* order given; it leaves the loop exactly when the failures in a row      *)
(* reach max_errores, a success setting the count back to zero, and visits *)
(* nothing more; it returns one record for each visit that succeeded, in   *)
(* the order of the visits, also after an abort.                           *)
(***************************************************************************)
RECURSIVE Racha(_, _)
\* the number of failures in a row that end the first n visits
Racha(e, n) == IF n = 0 \/ e[n] THEN 0 ELSE Racha(e, n - 1) + 1

RECURSIVE Exitosas(_, _, _)
\* the URLs of the first n visits that succeeded, in the order visited
Exitosas(u, e, n) ==
    IF n = 0 THEN <<>>
    ELSE IF e[n] THEN Append(Exitosas(u, e, n - 1), u[n])
    ELSE Exitosas(u, e, n - 1)

MasAbortado == pc_mas \in {"abortado", "fin_abortado"}

C27_AbortoPorFallosSeguidos ==
    pc_mas /= "off" =>
        /\ mas_idx = Len(exitos) /\ mas_idx <= Len(urls)
        /\ errores_consecutivos = Racha(exitos, mas_idx)
        /\ \A k \in 0..(mas_idx - 1) : Racha(exitos, k) < max_errores
        /\ MasAbortado <=> Racha(exitos, mas_idx) >= max_errores
        /\ pc_mas = "fin" => mas_idx = Len(urls)
        /\ resultados = Exitosas(urls, exitos, mas_idx)
        /\ pc_mas \in {"fin", "fin_abortado"} =>
              mas_ret = [clase |-> "DataFrame", filas |-> resultados]

\* a success, then two failures in a row with max_errores = 2: the fourth
\* URL is not visited and the one record is returned
C27_Testigo ==
    /\ pc_mas = "fin_abortado"
    /\ max_errores = 2
    /\ Len(urls) = 4
    /\ exitos = <<TRUE, FALSE, FALSE>>
    /\ mas_ret.filas = <<urls[1]>>

(***************************************************************************)
(* C21.  rellenar_formulario attempts a selection on the municipality or   *)
(* status dropdown only after a bounded poll has seen more than the        *)
(* placeholder in it, and never while the placeholder is its only option.  *)
(***************************************************************************)
C21_SeleccionTrasSondeo ==
    \A i \in 1..Len(selecciones) :
        /\ selecciones[i].sondeo = "True"
        /\ selecciones[i].con_opciones

\* C21 (what the code does for the status): the selection comes after the
\* wait has returned, and when the wait returned True the options are there.
C21_EstadoTrasLaEspera ==
    \A i \in 1..Len(selecciones) :
        selecciones[i].dropdown = "estado" =>
            /\ selecciones[i].sondeo \in {"True", "False"}
            /\ selecciones[i].sondeo = "True" => selecciones[i].con_opciones

(***************************************************************************)
(* C22.  The order of preference of _encontrar_tabla.                      *)
(***************************************************************************)
HayConClase == \E i \in 1..Len(documento) : documento[i].marca

\* C22 as claimed: the table with the class if there is one; otherwise the
\* table with the most data rows of the document; otherwise, no table having
\* a data row, the first table; no table only for a document without tables.
C22_MasFilasDeDatos ==
    pc_tab = "fin" =>
        /\ tabla_elegida = 0 <=> documento = <<>>
        /\ HayConClase => documento[tabla_elegida].marca
        /\ (~HayConClase /\ documento /= <<>>) =>
              IF \E i \in 1..Len(documento) : documento[i].datos > 0
              THEN \A i \in 1..Len(documento) :
                      documento[i].datos <= documento[tabla_elegida].datos
              ELSE tabla_elegida = 1

\* C22 as the code has it: the first table with the class if there is one;
\* otherwise the first of the tables with the most <tr> elements, of any
\* kind, if it has more than one; otherwise the first table; no table only
\* for a document without tables.
C22_MasFilasTr ==
    pc_tab = "fin" =>
        /\ tabla_elegida = 0 <=> documento = <<>>
        /\ HayConClase =>
              /\ documento[tabla_elegida].marca
              /\ \A j \in 1..(tabla_elegida - 1) : ~documento[j].marca
        /\ (~HayConClase /\ documento /= <<>>) =>
              IF \E i \in 1..Len(documento) : documento[i].trs > 1
              THEN /\ \A i \in 1..Len(documento) :
                         documento[i].trs <= documento[tabla_elegida].trs
                   /\ \A j \in 1..(tabla_elegida - 1) :
                         documento[j].trs < documento[tabla_elegida].trs
              ELSE tabla_elegida = 1

\* the second table carries the class and the first has more rows
C22_Testigo ==
    /\ pc_tab = "fin"
    /\ Len(documento) = 2
    /\ ~documento[1].marca /\ documento[2].marca
    /\ documento[1].trs > documento[2].trs
    /\ tabla_elegida = 2

\* without the class, the second table has more <tr> and is chosen
C22_TestigoHeuristica ==
    /\ pc_tab = "fin"
    /\ Len(documento) = 2
    /\ ~HayConClase
    /\ documento[2].trs > documento[1].trs /\ documento[2].trs > 1
    /\ tabla_elegida = 2

(***************************************************************************)
(* C23.  In the frame of parsear_pagina every row has as url_detalle the   *)
(* first link of its own <tr> that matches the detail pattern, and None    *)
(* only when that <tr> has no such link, also when the table has blank     *)
(* rows.                                                                   *)
(***************************************************************************)
UrlDeCadaFila ==
    \A k \in 1..Len(url_df.filas) :
        url_df.filas[k].url_detalle
            = PrimerEnlace(tabla_html[url_df.filas[k].tr])

HayFilaEnBlanco == \E k \in 1..Len(tabla_html) : tabla_html[k].celdas = "vacia"

C23_UrlDeLaMismaFila ==
    (pc_url = "fin" /\ ~EsError(url_df)) => UrlDeCadaFila

\* C23 without blank rows: every row has the first matching link of its own
\* <tr>.
C23_SinFilasEnBlanco ==
    (pc_url = "fin" /\ ~EsError(url_df) /\ ~HayFilaEnBlanco) => UrlDeCadaFila

====
